---- MODULE Spec2Model ----
(***************************************************************************)
(* Model of the image obfuscation engine of my-blog:                       *)
(*   - src/lib/crypto/gilbert.ts  (GilbertAlgo: gilbert2d, generate2d,     *)
(*     process), the generalized Hilbert curve and the cyclic pixel        *)
(*     scrambler built on it;                                              *)
(*   - the block shuffler (getRnd, shuffleArray, BlockShuffleAlgo.process).*)
(*   - the page that runs them (app/image-crypto/page.tsx): the image     *)
(*     list, the run handlers, processImage, drag and drop.                *)
(* The specifications: SpecCurve (direct calls of gilbert2d; FairSpecCurve *)
(* adds the fairness of synchronous execution), SpecGilbert (calls of      *)
(* GilbertAlgo.process), SpecBlock (calls of BlockShuffleAlgo.process),    *)
(* SpecRnd, SpecRndWide, SpecMixed and SpecShuffle (calls of getRnd and    *)
(* shuffleArray), SpecPage (the page's handlers and callbacks; FairSpecPage*)
(* adds the fairness of the event loop) and SpecDrag (the drag events).    *)
(***************************************************************************)
EXTENDS Integers, Sequences, FiniteSets, TLC

VARIABLES
    width,        \* width argument / imgData.width / canvas.width
    height,       \* height argument / imgData.height / canvas.height
    \* ---- GilbertAlgo ----
    bufs,         \* heap of Uint8ClampedArray contents, indexed by buffer id
    imgs,         \* heap of ImageData objects [width, height, data (buffer id)]
    pc,           \* "idle", "gen" (inside gilbert2d's recursion) or "loop" (process, lines 71-88)
    caller,       \* who called gilbert2d: "none", "gilbert2d" (direct) or "process"
    args,         \* the running process call: [imgData, type], and was: imgData's samples at the call
    newImgData,   \* process: the ImageData allocated at line 66 (0 outside process)
    offset,       \* process: the rotation offset of line 68
    i,            \* process: the loop index of line 71
    stack,        \* pending generate2d invocations, innermost first
    coordinates,  \* the accumulator gilbert2d allocates and generate2d appends to
    gcalls,       \* number of generate2d invocations entered in the running call
    gerr,         \* error raised by the running / last call ("none" if none)
    ret,          \* value returned by the last call
    plog,         \* history: one record per completed process call
    glog,         \* history: one record per returned direct gilbert2d call
    ncalls,       \* number of calls started
    \* ---- BlockShuffleAlgo ----
    level,        \* the level argument of BlockShuffleAlgo.process
    image,        \* the decoded source image the caller draws on the canvas
    canvas,       \* pixels of the 2d context, row-major, one RGBA tuple per pixel
    blog,         \* history: one record per BlockShuffleAlgo.process call
    \* ---- getRnd, shuffleArray called on their own ----
    rlog,         \* history: one record per getRnd call
    theArray,     \* the array object shuffleArray is given (its parameter array)
    scall,        \* the running / last shuffleArray call: [pc, seedKey, isDecrypt, len],
                  \* given: the array's elements at the call, calls: calls started
    slog,         \* history: one record per stage shuffleArray has run
    \* ---- the page (image-crypto/page.tsx) ----
    images,       \* the state images: the list of ImageItem
    algo,         \* the state algo
    blockLevel,   \* the state blockLevel
    isProcessing, \* the state isProcessing
    isDragging,   \* the state isDragging
    dragCounter,  \* dragCounterRef.current
    runs,         \* the calls of handleRunAll, handleRunSingle and handleSwitchAlgo, in the
                  \* order they started, each with the position of its pending processImage
    uploads,      \* the calls of handleFiles awaiting createImageBitmap: the number of files of each
    nextId,       \* number of ImageItem ids drawn so far
    started       \* number of run handlers called so far

inputs == <<width, height>>
heap == <<bufs, imgs>>
loopvars == <<newImgData, offset, i>>
bvars == <<level, image, canvas, blog>>
labvars == <<rlog, theArray, scall, slog>>
dragvars == <<isDragging, dragCounter>>
pagevars == <<images, algo, blockLevel, isProcessing, dragvars, runs, uploads, nextId, started>>
vars == <<width, height, bufs, imgs, pc, caller, args, newImgData, offset, i, stack,
          coordinates, gcalls, gerr, ret, plog, glog, ncalls, level, image, canvas, blog,
          rlog, theArray, scall, slog,
          images, algo, blockLevel, isProcessing, isDragging, dragCounter, runs, uploads, nextId, started>>

(***************************************************************************)
(* Bounds of the model.                                                    *)
(***************************************************************************)
\* grids of direct gilbert2d calls
MaxW == 5
MaxH == 5
\* images given to GilbertAlgo.process
MaxImgW == 4
MaxImgH == 3
\* calls per behaviour
MaxCalls == 2
\* invocations the engine's call stack holds
MaxStack == 8
\* canvases given to BlockShuffleAlgo.process, their levels, calls per behaviour
MaxCanvasW == 4
MaxCanvasH == 3
MaxLevel == 3
MaxBlockCalls == 2
\* gilbert2d and process called in turn: images, calls per behaviour
MaxMixW == 4
MaxMixH == 2
MaxMixCalls == 3
\* shuffleArray called on its own: array lengths, calls per behaviour
MaxArrayLen == 6
MaxShuffleCalls == 2
\* the page: files handed to handleFiles and runs started, together; nested
\* drag enters
MaxWork == 4
MaxDrag == 3
\* getRnd called on its own: seeds of a logged call, logged calls per behaviour,
\* and seeds of a single call
MaxSeed == 4
MaxRndCalls == 3
MaxWideSeed == 90

Patterns == 0 .. 2

(***************************************************************************)
(* Arithmetic of the JavaScript source.                                    *)
(***************************************************************************)
\* Math.abs
Abs(a) == IF a < 0 THEN -a ELSE a

\* Math.sign
Sign(a) == IF a > 0 THEN 1 ELSE IF a < 0 THEN -1 ELSE 0

\* Math.floor(a / 2): floor division, towards minus infinity
FloorHalf(a) == a \div 2

(***************************************************************************)
(* GilbertAlgo.generate2d, one invocation at a time.  An invocation is a   *)
(* frame [x, y, ax, ay, bx, by]; the accumulator is passed by reference.   *)
(***************************************************************************)
Frame(x, y, ax, ay, bx, by) == [x |-> x, y |-> y, ax |-> ax, ay |-> ay, bx |-> bx, by |-> by]

FrameW(f) == Abs(f.ax + f.ay)
FrameH(f) == Abs(f.bx + f.by)

\* the for loops of the two base cases: n cells from (x, y) stepping by (dx, dy)
Run(x, y, dx, dy, n) == [j \in 1 .. n |-> <<x + (j - 1) * dx, y + (j - 1) * dy>>]

\* the branch 2 * w > 3 * h: the two recursive calls, in call order
SplitWideNoHalving(f) ==
    << Frame(f.x, f.y, f.ax, f.ay, f.bx, f.by),
       Frame(f.x + f.ax, f.y + f.ay, 0, 0, f.bx, f.by) >>
SplitWide(f) ==
    LET w == FrameW(f)
        dax == Sign(f.ax)
        day == Sign(f.ay)
        ax2h == FloorHalf(f.ax)
        ay2h == FloorHalf(f.ay)
        w2 == Abs(ax2h + ay2h)
        nudge == (w2 % 2 # 0) /\ w > 2
        ax2 == IF nudge THEN ax2h + dax ELSE ax2h
        ay2 == IF nudge THEN ay2h + day ELSE ay2h
    IN  << Frame(f.x, f.y, ax2, ay2, f.bx, f.by),
           Frame(f.x + ax2, f.y + ay2, f.ax - ax2, f.ay - ay2, f.bx, f.by) >>

\* the else branch: the three recursive calls, in call order
SplitTallThirdOrigin(f) ==
    LET h == FrameH(f)
        dbx == Sign(f.bx)
        dby == Sign(f.by)
        ax2 == FloorHalf(f.ax)
        ay2 == FloorHalf(f.ay)
        bx2h == FloorHalf(f.bx)
        by2h == FloorHalf(f.by)
        h2 == Abs(bx2h + by2h)
        nudge == (h2 % 2 # 0) /\ h > 2
        bx2 == IF nudge THEN bx2h + dbx ELSE bx2h
        by2 == IF nudge THEN by2h + dby ELSE by2h
    IN  << Frame(f.x, f.y, bx2, by2, ax2, ay2),
           Frame(f.x + bx2, f.y + by2, f.ax, f.ay, f.bx - bx2, f.by - by2),
           Frame(f.x + f.ax + (bx2 - dbx), f.y + f.ay + (by2 - dby),
                 -bx2, -by2, -(f.ax - ax2), -(f.ay - ay2)) >>
SplitTallNoNudge(f) ==
    LET dax == Sign(f.ax)
        day == Sign(f.ay)
        dbx == Sign(f.bx)
        dby == Sign(f.by)
        ax2 == FloorHalf(f.ax)
        ay2 == FloorHalf(f.ay)
        bx2 == FloorHalf(f.bx)
        by2 == FloorHalf(f.by)
    IN  << Frame(f.x, f.y, bx2, by2, ax2, ay2),
           Frame(f.x + bx2, f.y + by2, f.ax, f.ay, f.bx - bx2, f.by - by2),
           Frame(f.x + (f.ax - dax) + (bx2 - dbx), f.y + (f.ay - day) + (by2 - dby),
                 -bx2, -by2, -(f.ax - ax2), -(f.ay - ay2)) >>
SplitTall(f) ==
    LET h == FrameH(f)
        dax == Sign(f.ax)
        day == Sign(f.ay)
        dbx == Sign(f.bx)
        dby == Sign(f.by)
        ax2 == FloorHalf(f.ax)
        ay2 == FloorHalf(f.ay)
        bx2h == FloorHalf(f.bx)
        by2h == FloorHalf(f.by)
        h2 == Abs(bx2h + by2h)
        nudge == (h2 % 2 # 0) /\ h > 2
        bx2 == IF nudge THEN bx2h + dbx ELSE bx2h
        by2 == IF nudge THEN by2h + dby ELSE by2h
    IN  << Frame(f.x, f.y, bx2, by2, ax2, ay2),
           Frame(f.x + bx2, f.y + by2, f.ax, f.ay, f.bx - bx2, f.by - by2),
           Frame(f.x + (f.ax - dax) + (bx2 - dbx), f.y + (f.ay - day) + (by2 - dby),
                 -bx2, -by2, -(f.ax - ax2), -(f.ay - ay2)) >>

\* gilbert2d's first call of generate2d
TopFrame(w, h) ==
    IF w >= h THEN Frame(0, 0, w, 0, 0, h) ELSE Frame(0, 0, 0, h, w, 0)

(***************************************************************************)
(* GilbertAlgo.process: the pixel loop over the finished curve.            *)
(***************************************************************************)
\* Math.round(((Math.sqrt(5) - 1) / 2) * n): the largest k with
\* k <= ((sqrt(5) - 1) / 2) * n + 1/2, i.e. (2k + n - 1)^2 <= 5 n^2.
\* (The double-precision product agrees with the exact one for every
\* n < 200000; the model's images are far smaller.)
OffsetMajorRatio(n) ==
    CHOOSE k \in n .. 2 * n :
        /\ (2 * k - n - 1) * (2 * k - n - 1) <= 5 * n * n
        /\ (2 * k - n + 1) * (2 * k - n + 1) > 5 * n * n
OffsetTruncated(n) ==
    CHOOSE k \in 0 .. n :
        /\ (2 * k + n) * (2 * k + n) <= 5 * n * n
        /\ (2 * k + n + 2) * (2 * k + n + 2) > 5 * n * n
Offset(n) ==
    CHOOSE k \in 0 .. n :
        /\ (2 * k + n - 1) * (2 * k + n - 1) <= 5 * n * n
        /\ (2 * k + n + 1) * (2 * k + n + 1) > 5 * n * n

\* a[k] on a Uint8ClampedArray: undefined outside the array, stored as 0
Rd(a, k) == IF k >= 0 /\ k < Len(a) THEN a[k + 1] ELSE 0

\* a[k] = v on a Uint8ClampedArray: ignored outside the array
Wr(a, k, v) == IF k >= 0 /\ k < Len(a) THEN [a EXCEPT ![k + 1] = v] ELSE a

\* the inner loops over the 4 channels; bs is the buffer heap, src the
\* buffer of imgData, dst the buffer of newImgData
RECURSIVE CopyChannels(_, _, _, _, _, _)
CopyChannels(bs, src, sp, dst, dp, c) ==
    IF c >= 4 THEN bs
    ELSE CopyChannels([bs EXCEPT ![dst] = Wr(bs[dst], dp + c, Rd(bs[src], sp + c))],
                      src, sp, dst, dp, c + 1)

\* one iteration of the loop of lines 71-88, given old_p and new_p
PixelStepThreeChannels(bs, src, dst, old_p, new_p, type) ==
    IF type = "encrypt"
    THEN CopyChannels(bs, src, old_p, dst, new_p, 1)
    ELSE CopyChannels(bs, src, new_p, dst, old_p, 1)
PixelStepSameDirection(bs, src, dst, old_p, new_p, type) ==
    CopyChannels(bs, src, old_p, dst, new_p, 0)
PixelStep(bs, src, dst, old_p, new_p, type) ==
    IF type = "encrypt"
    THEN CopyChannels(bs, src, old_p, dst, new_p, 0)
    ELSE CopyChannels(bs, src, new_p, dst, old_p, 0)

\* one iteration of the loop of lines 71-88 with index k: the buffer heap it
\* leaves, and err = "TypeError" when curve[...] is undefined and old_pos[0] throws
LoopBodyNoOffset(bs, src, dst, curve, off, totalPixels, w, type, k) ==
    IF k + 1 > Len(curve) THEN [err |-> "TypeError", heap |-> bs]
    ELSE LET old_pos == curve[k + 1]
             old_p == 4 * (old_pos[1] + old_pos[2] * w)
         IN  [err |-> "none", heap |-> PixelStep(bs, src, dst, old_p, old_p, type)]
LoopBody(bs, src, dst, curve, off, totalPixels, w, type, k) ==
    LET oi == k + 1
        ni == ((k + off) % totalPixels) + 1
    IN  IF oi > Len(curve) \/ ni > Len(curve) THEN [err |-> "TypeError", heap |-> bs]
        ELSE LET old_pos == curve[oi]
                 new_pos == curve[ni]
                 old_p == 4 * (old_pos[1] + old_pos[2] * w)
                 new_p == 4 * (new_pos[1] + new_pos[2] * w)
             IN  [err |-> "none", heap |-> PixelStep(bs, src, dst, old_p, new_p, type)]

\* new ImageData(new Uint8ClampedArray(imgData.data), width, height):
\* the buffer heap after the allocation, and the id of newImgData's buffer
AllocCopyAliased(bs, src) == [heap |-> bs, id |-> src]
AllocCopy(bs, src) == [heap |-> Append(bs, bs[src]), id |-> Len(bs) + 1]

(***************************************************************************)
(* The callers of GilbertAlgo: gilbert2d called directly (SpecCurve) and   *)
(* process called on the images the caller holds (SpecGilbert).            *)
(***************************************************************************)
\* the image the caller holds: three fillings of a width x height buffer
Pattern(p, n) ==
    [k \in 1 .. 4 * n |->
        LET q == (k - 1) \div 4
            c == (k - 1) % 4
        IN  CASE p = 0 -> (k - 1) % 256
              [] p = 1 -> IF c = 3 THEN 255 ELSE (q % 2) * 255
              [] OTHER -> (q % 3) * 100 + c]

NoRet == [kind |-> "none", curve |-> <<>>, img |-> 0]
NoArgs == [imgData |-> 0, type |-> "none", was |-> <<>>]

\* no call of GilbertAlgo made yet
IdleEngine ==
    /\ pc = "idle"
    /\ caller = "none"
    /\ args = NoArgs
    /\ newImgData = 0
    /\ offset = 0
    /\ i = 0
    /\ stack = <<>>
    /\ coordinates = <<>>
    /\ gcalls = 0
    /\ gerr = "none"
    /\ ret = NoRet
    /\ plog = <<>>
    /\ glog = <<>>
    /\ ncalls = 0

\* no canvas
NoCanvas ==
    /\ level = 0
    /\ image = <<>>
    /\ canvas = <<>>
    /\ blog = <<>>

\* a run not started yet, and a run that has returned
NoRun ==
    [kind |-> "none", mode |-> "encrypt", options |-> [algo |-> "gilbert", blockLevel |-> 40],
     queue |-> <<>>, index |-> -1, at |-> "returned"]

\* the page as it is mounted (lines 48-57), no event yet
NoPage ==
    /\ images = <<>>
    /\ algo = "gilbert"
    /\ blockLevel = 40
    /\ isProcessing = FALSE
    /\ isDragging = FALSE
    /\ dragCounter = 0
    /\ runs = [t \in 1 .. MaxWork |-> NoRun]
    /\ uploads = <<>>
    /\ nextId = 0
    /\ started = 0

\* no call of getRnd or shuffleArray on its own
NoShuffleCall ==
    [pc |-> "idle", seedKey |-> <<>>, isDecrypt |-> FALSE, len |-> 0, given |-> <<>>, calls |-> 0]
NoLab ==
    /\ rlog = <<>>
    /\ theArray = <<>>
    /\ scall = NoShuffleCall
    /\ slog = <<>>

\* the caller holds one width x height ImageData
InitGilbert ==
    /\ width \in 1 .. MaxImgW
    /\ height \in 1 .. MaxImgH
    /\ \E p \in Patterns : bufs = << Pattern(p, width * height) >>
    /\ imgs = << [width |-> width, height |-> height, data |-> 1] >>
    /\ IdleEngine
    /\ NoPage
    /\ NoCanvas
    /\ NoLab

\* entry of gilbert2d (lines 6-8): a fresh accumulator and the first call
EnterGilbert2dSharedAccumulator(w, h) ==
    /\ coordinates' = coordinates
    /\ stack' = << [f |-> TopFrame(w, h), d |-> 1] >>
    /\ gcalls' = 0
    /\ gerr' = "none"
    /\ pc' = "gen"
EnterGilbert2d(w, h) ==
    /\ coordinates' = <<>>
    /\ stack' = << [f |-> TopFrame(w, h), d |-> 1] >>
    /\ gcalls' = 0
    /\ gerr' = "none"
    /\ pc' = "gen"

\* the images the caller holds: its own and those process returned
Held == {1} \cup {plog[k].out : k \in DOMAIN plog}

\* a direct call GilbertAlgo.gilbert2d(width, height)
CallGilbert2d ==
    /\ pc = "idle"
    /\ ncalls < MaxCalls
    /\ ncalls' = ncalls + 1
    /\ caller' = "gilbert2d"
    /\ args' = NoArgs
    /\ EnterGilbert2d(width, height)
    /\ UNCHANGED <<inputs, heap, loopvars, ret, plog, glog, bvars, labvars, pagevars>>

\* a call GilbertAlgo.process(imgData, type): lines 64-67, up to the call of
\* gilbert2d; newImgData is allocated with a copy of imgData's samples
CallProcess ==
    /\ pc = "idle"
    /\ ncalls < MaxCalls
    /\ \E id \in Held, type \in {"encrypt", "decrypt"} :
        LET alloc == AllocCopy(bufs, imgs[id].data) IN
        /\ args' = [imgData |-> id, type |-> type, was |-> bufs[imgs[id].data]]
        /\ bufs' = alloc.heap
        /\ imgs' = Append(imgs, [width |-> imgs[id].width, height |-> imgs[id].height,
                                 data |-> alloc.id])
        /\ newImgData' = Len(imgs) + 1
        /\ EnterGilbert2d(imgs[id].width, imgs[id].height)
    /\ ncalls' = ncalls + 1
    /\ caller' = "process"
    /\ UNCHANGED <<inputs, offset, i, ret, plog, glog, bvars, labvars, pagevars>>

\* the recursive calls of an invocation at depth d; the engine's call stack
\* holds at most MaxStack invocations
Recurse(children, d) ==
    IF d + 1 > MaxStack
    THEN /\ gerr' = "RangeError"
         /\ stack' = <<>>
    ELSE /\ gerr' = gerr
         /\ stack' = [k \in 1 .. Len(children) |-> [f |-> children[k], d |-> d + 1]] \o Tail(stack)

\* generate2d, base case h === 1 (lines 20-27)
Generate2dRunA ==
    /\ pc = "gen" /\ stack # <<>>
    /\ LET f == Head(stack).f IN
        /\ FrameH(f) = 1
        /\ coordinates' = coordinates \o Run(f.x, f.y, Sign(f.ax), Sign(f.ay), FrameW(f))
    /\ stack' = Tail(stack)
    /\ gcalls' = gcalls + 1
    /\ UNCHANGED <<inputs, heap, pc, caller, args, loopvars, gerr, ret, plog, glog, ncalls, bvars, labvars, pagevars>>

\* generate2d, base case w === 1 (lines 28-35)
Generate2dRunB ==
    /\ pc = "gen" /\ stack # <<>>
    /\ LET f == Head(stack).f IN
        /\ FrameH(f) # 1 /\ FrameW(f) = 1
        /\ coordinates' = coordinates \o Run(f.x, f.y, Sign(f.bx), Sign(f.by), FrameH(f))
    /\ stack' = Tail(stack)
    /\ gcalls' = gcalls + 1
    /\ UNCHANGED <<inputs, heap, pc, caller, args, loopvars, gerr, ret, plog, glog, ncalls, bvars, labvars, pagevars>>

\* generate2d, the split along a (lines 45-51)
Generate2dWide ==
    /\ pc = "gen" /\ stack # <<>>
    /\ LET f == Head(stack).f IN
        /\ FrameH(f) # 1 /\ FrameW(f) # 1
        /\ 2 * FrameW(f) > 3 * FrameH(f)
        /\ Recurse(SplitWide(f), Head(stack).d)
    /\ gcalls' = gcalls + 1
    /\ UNCHANGED <<inputs, heap, pc, caller, args, loopvars, coordinates, ret, plog, glog, ncalls, bvars, labvars, pagevars>>

\* generate2d, the three-way split (lines 52-60)
Generate2dTall ==
    /\ pc = "gen" /\ stack # <<>>
    /\ LET f == Head(stack).f IN
        /\ FrameH(f) # 1 /\ FrameW(f) # 1
        /\ ~(2 * FrameW(f) > 3 * FrameH(f))
        /\ Recurse(SplitTall(f), Head(stack).d)
    /\ gcalls' = gcalls + 1
    /\ UNCHANGED <<inputs, heap, pc, caller, args, loopvars, coordinates, ret, plog, glog, ncalls, bvars, labvars, pagevars>>

Thrown == [kind |-> "throw", curve |-> <<>>, img |-> 0]

\* return of a direct gilbert2d call (line 9), or the RangeError leaving it
ReturnGilbert2d ==
    /\ pc = "gen" /\ stack = <<>> /\ caller = "gilbert2d"
    /\ pc' = "idle"
    /\ ret' = IF gerr = "none" THEN [kind |-> "curve", curve |-> coordinates, img |-> 0]
              ELSE Thrown
    /\ glog' = IF gerr = "none"
               THEN Append(glog, [width |-> width, height |-> height, curve |-> coordinates,
                                  call |-> ncalls])
               ELSE glog
    /\ UNCHANGED <<inputs, heap, caller, args, loopvars, stack, coordinates, gcalls, gerr,
                   plog, ncalls, bvars, labvars, pagevars>>

\* process after gilbert2d has returned (lines 67-70), or the RangeError leaving it
StartLoop ==
    /\ pc = "gen" /\ stack = <<>> /\ caller = "process"
    /\ IF gerr # "none"
       THEN /\ pc' = "idle"
            /\ ret' = Thrown
            /\ UNCHANGED <<offset, i>>
       ELSE /\ pc' = "loop"
            /\ offset' = Offset(imgs[args.imgData].width * imgs[args.imgData].height)
            /\ i' = 0
            /\ ret' = ret
    /\ UNCHANGED <<inputs, heap, caller, args, newImgData, stack, coordinates, gcalls, gerr,
                   plog, glog, ncalls, bvars, labvars, pagevars>>

\* one iteration of the pixel loop (lines 71-88)
LoopStep ==
    /\ pc = "loop"
    /\ LET imgData == imgs[args.imgData]
           totalPixels == imgData.width * imgData.height
           done == LoopBody(bufs, imgData.data, imgs[newImgData].data, coordinates, offset,
                            totalPixels, imgData.width, args.type, i)
       IN  /\ i < totalPixels
           /\ bufs' = done.heap
           /\ IF done.err # "none"
              THEN /\ gerr' = done.err
                   /\ pc' = "idle"
                   /\ ret' = Thrown
                   /\ i' = i
              ELSE /\ i' = i + 1
                   /\ UNCHANGED <<gerr, pc, ret>>
    /\ UNCHANGED <<inputs, imgs, caller, args, newImgData, offset, stack, coordinates, gcalls,
                   plog, glog, ncalls, bvars, labvars, pagevars>>

\* the loop is over: return newImgData (line 89)
ReturnProcess ==
    /\ pc = "loop"
    /\ i >= imgs[args.imgData].width * imgs[args.imgData].height
    /\ pc' = "idle"
    /\ ret' = [kind |-> "image", curve |-> <<>>, img |-> newImgData]
    /\ plog' = Append(plog, [type |-> args.type, in |-> args.imgData, out |-> newImgData,
                             inData |-> args.was,
                             curve |-> coordinates, offset |-> offset])
    /\ UNCHANGED <<inputs, heap, caller, args, loopvars, stack, coordinates, gcalls, gerr,
                   glog, ncalls, bvars, labvars, pagevars>>

NextGilbert ==
    \/ CallProcess
    \/ Generate2dRunA
    \/ Generate2dRunB
    \/ Generate2dWide
    \/ Generate2dTall
    \/ StartLoop
    \/ LoopStep
    \/ ReturnProcess

SpecGilbert == InitGilbert /\ [][NextGilbert]_vars

\* the direct calls gilbert2d(width, height)
InitCurve ==
    /\ width \in 1 .. MaxW
    /\ height \in 1 .. MaxH
    /\ bufs = <<>>
    /\ imgs = <<>>
    /\ IdleEngine
    /\ NoPage
    /\ NoCanvas
    /\ NoLab

NextCurve ==
    \/ CallGilbert2d
    \/ Generate2dRunA
    \/ Generate2dRunB
    \/ Generate2dWide
    \/ Generate2dTall
    \/ ReturnGilbert2d

SpecCurve == InitCurve /\ [][NextCurve]_vars

\* gilbert2d is synchronous: once called, its invocations of generate2d run one
\* after the other until the call returns, so every enabled step is taken
FairSpecCurve ==
    /\ InitCurve
    /\ [][NextCurve]_vars
    /\ WF_vars(Generate2dRunA \/ Generate2dRunB \/ Generate2dWide \/ Generate2dTall)
    /\ WF_vars(ReturnGilbert2d)

(***************************************************************************)
(* SpecMixed: a caller that calls gilbert2d and process in turn, gilbert2d *)
(* with the sides of its image in either order.                            *)
(***************************************************************************)
InitMixed ==
    /\ width \in 1 .. MaxMixW
    /\ height \in 1 .. MaxMixH
    /\ bufs = << Pattern(0, width * height) >>
    /\ imgs = << [width |-> width, height |-> height, data |-> 1] >>
    /\ IdleEngine
    /\ NoPage
    /\ NoCanvas
    /\ NoLab

\* a direct call gilbert2d(w, h), w and h the sides of the caller's image in
\* either order
MixedCallGilbert2d ==
    /\ pc = "idle"
    /\ ncalls < MaxMixCalls
    /\ \E swap \in BOOLEAN :
        /\ width' = IF swap THEN imgs[1].height ELSE imgs[1].width
        /\ height' = IF swap THEN imgs[1].width ELSE imgs[1].height
        /\ EnterGilbert2d(width', height')
    /\ ncalls' = ncalls + 1
    /\ caller' = "gilbert2d"
    /\ args' = NoArgs
    /\ UNCHANGED <<heap, loopvars, ret, plog, glog, bvars, labvars, pagevars>>

\* a call GilbertAlgo.process(imgData, type) between direct calls
MixedCallProcess ==
    /\ pc = "idle"
    /\ ncalls < MaxMixCalls
    /\ \E id \in Held, type \in {"encrypt", "decrypt"} :
        \E alloc \in {AllocCopy(bufs, imgs[id].data)} :
        /\ args' = [imgData |-> id, type |-> type, was |-> bufs[imgs[id].data]]
        /\ bufs' = alloc.heap
        /\ imgs' = Append(imgs, [width |-> imgs[id].width, height |-> imgs[id].height,
                                 data |-> alloc.id])
        /\ newImgData' = Len(imgs) + 1
        /\ EnterGilbert2d(imgs[id].width, imgs[id].height)
    /\ ncalls' = ncalls + 1
    /\ caller' = "process"
    /\ UNCHANGED <<inputs, offset, i, ret, plog, glog, bvars, labvars, pagevars>>

NextMixed ==
    \/ MixedCallGilbert2d
    \/ MixedCallProcess
    \/ Generate2dRunA
    \/ Generate2dRunB
    \/ Generate2dWide
    \/ Generate2dTall
    \/ ReturnGilbert2d
    \/ StartLoop
    \/ LoopStep
    \/ ReturnProcess

SpecMixed == InitMixed /\ [][NextMixed]_vars

(***************************************************************************)
(* The block shuffler: getRnd, shuffleArray, BlockShuffleAlgo.process.     *)
(* A string is the sequence of its UTF-16 code units, as charCodeAt reads  *)
(* it; a JavaScript array is a sequence, its index k at position k + 1.    *)
(***************************************************************************)
\* 'hadsky.com'
DEFAULT_KEY == <<104, 97, 100, 115, 107, 121, 46, 99, 111, 109>>

\* the number of characters of the decimal numeral of n >= 0 ('0.' + index)
RECURSIVE Digits(_)
Digits(n) == IF n < 10 THEN 1 ELSE 1 + Digits(n \div 10)

RECURSIVE Pow10(_)
Pow10(n) == IF n = 0 THEN 1 ELSE 10 * Pow10(n - 1)

\* 2^n
RECURSIVE Pow2(_)
Pow2(n) == IF n = 0 THEN 1 ELSE 2 * Pow2(n - 1)

\* 2^e modulo q
RECURSIVE Pow2Mod(_, _)
Pow2Mod(e, q) == IF e = 0 THEN 1 % q ELSE (2 * Pow2Mod(e - 1, q)) % q

\* the binade of the fraction index / q, 0 < index < q: the least k >= 1 with
\* 2^-k <= index / q
RECURSIVE Binade(_, _, _)
Binade(index, q, k) == IF Pow2(k) * index >= q THEN k ELSE Binade(index, q, k + 1)

\* the least e >= n with m <= 2^e
RECURSIVE CeilLog2(_, _)
CeilLog2(m, n) == IF m <= Pow2(n) THEN n ELSE CeilLog2(m, n + 1)

\* the product floatNum * seed of line 10 falls short of the integer m it would
\* be in exact arithmetic.  floatNum is the double nearest index / q, q = 10^d:
\* with k the binade of index / q its significand is M = round(index * 2^(52+k) / q),
\* and t = (index * 2^(52+k)) mod q is what the rounding drops (M is rounded
\* down iff 2t < q).  The exact product M * seed / 2^(52+k) is then below
\* m = index * seed / q by t * seed / (q * 2^(52+k)); the doubles just below m,
\* 2^(e-1) < m <= 2^e, are 2^(e-53) apart, and the product is rounded to the
\* nearest of them (to m on a tie, its significand being even), so it is
\* below m iff t * seed / (q * 2^(52+k)) > 2^(e-54).
ProductBelow(index, q, seed) ==
    LET k == Binade(index, q, 1)
        t == (index * Pow2Mod(52 + k, q)) % q
        e == CeilLog2((index * seed) \div q, 0)
    IN  /\ t # 0
        /\ 2 * t < q
        /\ 2 * t * seed > q * Pow2(k + e - 1)

FloorOfProductOneDigit(index, seed) == (index * seed) \div 10

\* Math.floor(parseFloat('0.' + index) * seed) in double precision, index >= 0,
\* seed >= 1.  When index * seed / q is not an integer it is at least 1 / q
\* from one, far more than the rounding moves the product, and the floor is the
\* exact one; when it is an integer m the floor is m or, if the product falls
\* short of m, m - 1.
FloorOfProduct(index, seed) ==
    LET q == Pow10(Digits(index))
        exact == (index * seed) \div q
    IN  IF index # 0 /\ (index * seed) % q = 0 /\ ProductBelow(index, q, seed)
        THEN exact - 1
        ELSE exact

\* getRnd(key, seed).  With key = '' both remainders are NaN, '0.NaN' parses
\* as 0 and the result is 0.
getRndCounting(key, seed) ==
    IF key = <<>> THEN 0
    ELSE FloorOfProduct(key[(seed % Len(key)) + 1] % Len(key), seed + Len(rlog))
getRndRounded(key, seed) ==
    IF key = <<>> THEN 0
    ELSE LET index0 == seed % Len(key)
             index == key[index0 + 1] % Len(key)
             q == Pow10(Digits(index))
         IN  (2 * index * seed + q) \div (2 * q)
getRndCeil(key, seed) ==
    IF key = <<>> THEN 0
    ELSE LET index0 == seed % Len(key)
             index == key[index0 + 1] % Len(key)
             q == Pow10(Digits(index))
         IN  (index * seed + q - 1) \div q
getRnd(key, seed) ==
    IF key = <<>> THEN 0
    ELSE LET index0 == seed % Len(key)
             index == key[index0 + 1] % Len(key)
         IN  FloorOfProduct(index, seed)

\* what an array holds at an index it has no element for
Undefined == [width |-> -1, height |-> -1, data |-> <<>>]

\* arr[k]
JsGet(arr, k) == IF k >= 0 /\ k < Len(arr) THEN arr[k + 1] ELSE Undefined

\* arr[k] = v: an index past the end extends the array
JsSet(arr, k, v) ==
    IF k < Len(arr) THEN [arr EXCEPT ![k + 1] = v]
    ELSE [j \in 1 .. k + 1 |-> IF j <= Len(arr) THEN arr[j] ELSE IF j = k + 1 THEN v ELSE Undefined]

\* [arr[a], arr[b]] = [arr[b], arr[a]]
JsSwap(arr, a, b) == JsSet(JsSet(arr, a, JsGet(arr, b)), b, JsGet(arr, a))

\* array.reverse()
JsReverse(arr) == [j \in 1 .. Len(arr) |-> arr[Len(arr) + 1 - j]]

\* Evaluation order only: the value is e; v, a value e uses, is computed first,
\* so that a loop's state is a value at every iteration and not a nest of
\* pending computations.
After(v, e) == IF v = v THEN e ELSE e

\* the loop of lines 20-23, from index k down to 1
RECURSIVE ForwardLoop(_, _, _)
ForwardLoop(arr, key, k) ==
    IF k > 0
    THEN LET swapped == JsSwap(arr, k, getRnd(key, k + 1))
         IN  After(swapped, ForwardLoop(swapped, key, k - 1))
    ELSE arr

\* the loop of lines 25-28, from index k up to len - 1
RECURSIVE ReverseLoopSeedIsIndex(_, _, _, _)
ReverseLoopSeedIsIndex(arr, key, k, len) ==
    IF k < len
    THEN LET swapped == JsSwap(arr, getRnd(key, k), k)
         IN  After(swapped, ReverseLoopSeedIsIndex(swapped, key, k + 1, len))
    ELSE arr
RECURSIVE ReverseLoop(_, _, _, _)
ReverseLoop(arr, key, k, len) ==
    IF k < len
    THEN LET swapped == JsSwap(arr, getRnd(key, k + 1), k)
         IN  After(swapped, ReverseLoop(swapped, key, k + 1, len))
    ELSE arr

\* performShuffle(arr, key, reverse); len is the length shuffleArray read at line 14
performShuffleSameOrder(arr, key, reverse, len) == ForwardLoop(arr, key, len - 1)
performShuffle(arr, key, reverse, len) ==
    IF ~reverse THEN ForwardLoop(arr, key, len - 1) ELSE ReverseLoop(arr, key, 0, len)

\* shuffleArray(array, seedKey, isDecrypt): the array it leaves and returns
shuffleArrayNoUserStage(array, seedKey, isDecrypt) ==
    IF ~isDecrypt
    THEN performShuffle(JsReverse(array), DEFAULT_KEY, FALSE, Len(array))
    ELSE JsReverse(performShuffle(array, DEFAULT_KEY, TRUE, Len(array)))
shuffleArrayNoFinalReverse(array, seedKey, isDecrypt) ==
    LET len == Len(array)
        userKey == seedKey
    IN  IF ~isDecrypt
        THEN LET a1 == JsReverse(array)
                 a2 == performShuffle(a1, DEFAULT_KEY, FALSE, len)
             IN  IF userKey # <<>> THEN performShuffle(a2, userKey, FALSE, len) ELSE a2
        ELSE LET a1 == IF userKey # <<>> THEN performShuffle(array, userKey, TRUE, len) ELSE array
             IN  performShuffle(a1, DEFAULT_KEY, TRUE, len)
shuffleArray(array, seedKey, isDecrypt) ==
    LET len == Len(array)
        userKey == seedKey
    IN  IF ~isDecrypt
        THEN LET a1 == JsReverse(array)
                 a2 == performShuffle(a1, DEFAULT_KEY, FALSE, len)
             IN  IF userKey # <<>> THEN performShuffle(a2, userKey, FALSE, len) ELSE a2
        ELSE LET a1 == IF userKey # <<>> THEN performShuffle(array, userKey, TRUE, len) ELSE array
                 a2 == performShuffle(a1, DEFAULT_KEY, TRUE, len)
             IN  JsReverse(a2)

\* a cleared pixel: transparent black
Clear == <<0, 0, 0, 0>>

\* ctx.getImageData(sx, sy, sw, sh) on the w x h canvas cv: pixels outside the
\* canvas read as transparent black
GetImageData(cv, w, h, sx, sy, sw, sh) ==
    [width |-> sw, height |-> sh,
     data |-> [j \in 1 .. sw * sh |->
                 LET px == sx + ((j - 1) % sw)
                     py == sy + ((j - 1) \div sw)
                 IN  IF px < w /\ py < h THEN cv[px + py * w + 1] ELSE Clear]]

\* ctx.putImageData(tile, dx, dy) on the w x h canvas cv
PutImageData(cv, w, h, tile, dx, dy) ==
    [j \in 1 .. w * h |->
        LET px == (j - 1) % w
            py == (j - 1) \div w
        IN  IF /\ px >= dx /\ px < dx + tile.width
               /\ py >= dy /\ py < dy + tile.height
            THEN tile.data[(px - dx) + (py - dy) * tile.width + 1]
            ELSE cv[j]]

\* ctx.clearRect(0, 0, w, h)
ClearRect(cv, w, h) == [j \in 1 .. w * h |-> Clear]

\* the cutting loops of lines 57-63: the tiles in push order
CutBlocks(cv, w, h, lv, blockW, blockH) ==
    [j \in 1 .. lv * lv |->
        GetImageData(cv, w, h, ((j - 1) % lv) * blockW, ((j - 1) \div lv) * blockH, blockW, blockH)]

\* the repainting loops of lines 71-79 from grid position n on (n = y * level + x);
\* index is the loop's counter into blocks.  A missing tile makes putImageData throw.
RECURSIVE Repaint(_, _, _, _, _, _, _, _, _)
Repaint(cv, w, h, lv, blockW, blockH, blocks, n, index) ==
    IF n >= lv * lv THEN [err |-> "none", canvas |-> cv]
    ELSE IF index < Len(blocks)
    THEN IF blocks[index + 1] = Undefined
         THEN [err |-> "TypeError", canvas |-> cv]
         ELSE LET painted == PutImageData(cv, w, h, blocks[index + 1],
                                          (n % lv) * blockW, (n \div lv) * blockH)
              IN  After(painted, Repaint(painted, w, h, lv, blockW, blockH, blocks,
                                         n + 1, index + 1))
    ELSE Repaint(cv, w, h, lv, blockW, blockH, blocks, n + 1, index)

\* BlockShuffleAlgo.process(ctx, w, h, lv, key, type) on the canvas cv: the error
\* it throws ("none" if none), the canvas it leaves, and the tile array after
\* the shuffle
BlockProcessClearFirst(cv, w, h, lv, key, type) ==
    LET blockW == w \div lv
        blockH == h \div lv
        blocks == shuffleArray(CutBlocks(cv, w, h, lv, blockW, blockH), key, type = "decrypt")
        painted == Repaint(ClearRect(cv, w, h), w, h, lv, blockW, blockH, blocks, 0, 0)
    IN  IF blockW = 0 \/ blockH = 0
        THEN [err |-> "Error", canvas |-> ClearRect(cv, w, h), blocks |-> <<>>]
        ELSE [err |-> painted.err, canvas |-> painted.canvas, blocks |-> blocks]
BlockProcessNoClear(cv, w, h, lv, key, type) ==
    LET blockW == w \div lv
        blockH == h \div lv
        blocks == shuffleArray(CutBlocks(cv, w, h, lv, blockW, blockH), key, type = "decrypt")
        painted == Repaint(cv, w, h, lv, blockW, blockH, blocks, 0, 0)
    IN  IF blockW = 0 \/ blockH = 0
        THEN [err |-> "Error", canvas |-> cv, blocks |-> <<>>]
        ELSE [err |-> painted.err, canvas |-> painted.canvas, blocks |-> blocks]
BlockProcess(cv, w, h, lv, key, type) ==
    LET blockW == w \div lv
        blockH == h \div lv
        blocks == shuffleArray(CutBlocks(cv, w, h, lv, blockW, blockH), key, type = "decrypt")
        painted == Repaint(ClearRect(cv, w, h), w, h, lv, blockW, blockH, blocks, 0, 0)
    IN  IF blockW = 0 \/ blockH = 0
        THEN [err |-> "Error", canvas |-> cv, blocks |-> <<>>]
        ELSE [err |-> painted.err, canvas |-> painted.canvas, blocks |-> blocks]

(***************************************************************************)
(* SpecBlock: a caller that draws its image on a canvas and calls          *)
(* BlockShuffleAlgo.process on it.                                         *)
(***************************************************************************)
\* the user keys tried: '', 'a', 'b', 'abc'
Keys == { <<>>, <<97>>, <<98>>, <<97, 98, 99>> }

\* two source images: every pixel different, and a two-colour checkerboard
ImagePattern(p, w, h) ==
    [j \in 1 .. w * h |->
        LET px == (j - 1) % w
            py == (j - 1) \div w
        IN  IF p = 0 THEN <<px + 1, py + 1, 7, 255>>
            ELSE <<((px + py) % 2) * 200, 50, 50, 255>>]

InitBlock ==
    /\ width \in 1 .. MaxCanvasW
    /\ height \in 1 .. MaxCanvasH
    /\ level \in 2 .. MaxLevel
    /\ \E p \in 0 .. 1 : image = ImagePattern(p, width, height)
    /\ canvas = image
    /\ blog = <<>>
    /\ bufs = <<>>
    /\ imgs = <<>>
    /\ IdleEngine
    /\ NoPage
    /\ NoLab

gilbertvars == <<bufs, imgs, pc, caller, args, newImgData, offset, i, stack, coordinates,
                 gcalls, gerr, ret, plog, glog, ncalls>>

\* ctx.drawImage(img, 0, 0): the caller puts its image back on the canvas
DrawImage ==
    /\ Len(blog) < MaxBlockCalls
    /\ canvas # image
    /\ canvas' = image
    /\ UNCHANGED <<inputs, level, image, blog, gilbertvars, labvars, pagevars>>

\* a call BlockShuffleAlgo.process(ctx, width, height, level, key, type)
CallBlockProcess ==
    /\ Len(blog) < MaxBlockCalls
    /\ \E key \in Keys, type \in {"encrypt", "decrypt"} :
        \E r \in {BlockProcess(canvas, width, height, level, key, type)} :
        /\ canvas' = r.canvas
        /\ blog' = Append(blog, [key |-> key, type |-> type, err |-> r.err,
                                 before |-> canvas, after |-> r.canvas, blocks |-> r.blocks])
    /\ UNCHANGED <<inputs, level, image, gilbertvars, labvars, pagevars>>

NextBlock ==
    \/ DrawImage
    \/ CallBlockProcess

SpecBlock == InitBlock /\ [][NextBlock]_vars

(***************************************************************************)
(* SpecRnd, SpecRndWide: getRnd called on its own.                         *)
(***************************************************************************)
\* the keys getRnd is called with: 'a', 'abc', 'abcdefghi', 'tool.hadsky.com'
\* (the page's default blockKey)
RndKeys == { <<97>>, <<97, 98, 99>>,
             <<97, 98, 99, 100, 101, 102, 103, 104, 105>>,
             <<116, 111, 111, 108, 46, 104, 97, 100, 115, 107, 121, 46, 99, 111, 109>> }

\* no image, no canvas
NoImage ==
    /\ width = 0
    /\ height = 0
    /\ bufs = <<>>
    /\ imgs = <<>>
    /\ level = 0
    /\ image = <<>>
    /\ canvas = <<>>
    /\ blog = <<>>

InitRnd ==
    /\ NoImage
    /\ IdleEngine
    /\ NoPage
    /\ NoLab

\* the record of a call getRnd(key, seed)
RndCall(key, seed) == [key |-> key, seed |-> seed, value |-> getRnd(key, seed)]

\* a call getRnd(key, seed), after any earlier calls
CallGetRnd ==
    /\ Len(rlog) < MaxRndCalls
    /\ \E key \in RndKeys, seed \in 1 .. MaxSeed : rlog' = Append(rlog, RndCall(key, seed))
    /\ UNCHANGED <<inputs, gilbertvars, bvars, pagevars, theArray, scall, slog>>

NextRnd == CallGetRnd

SpecRnd == InitRnd /\ [][NextRnd]_vars

\* one call getRnd(key, seed) with a seed as large as a grid of tiles gives
CallGetRndWide ==
    /\ rlog = <<>>
    /\ \E key \in RndKeys, seed \in 1 .. MaxWideSeed : rlog' = << RndCall(key, seed) >>
    /\ UNCHANGED <<inputs, gilbertvars, bvars, pagevars, theArray, scall, slog>>

NextRndWide == CallGetRndWide

SpecRndWide == InitRnd /\ [][NextRndWide]_vars

(***************************************************************************)
(* SpecShuffle: shuffleArray called on its own, stage by stage, on one     *)
(* array object; pc is the line of shuffleArray about to run.              *)
(***************************************************************************)
\* the user keys tried: '', 'a', 'abc', 'abcdefghi'
ShuffleKeys == { <<>>, <<97>>, <<97, 98, 99>>, <<97, 98, 99, 100, 101, 102, 103, 104, 105>> }

\* array element number k: a one-pixel tile
Tile(k) == [width |-> 1, height |-> 1, data |-> <<k>>]

InitShuffle ==
    /\ NoImage
    /\ IdleEngine
    /\ NoPage
    /\ rlog = <<>>
    /\ \E n \in 0 .. MaxArrayLen : theArray = [k \in 1 .. n |-> Tile(k)]
    /\ scall = NoShuffleCall
    /\ slog = <<>>

\* if (!isDecrypt) at line 32: the first stage of each branch
FirstStageEncryptOrder(isDecrypt) == "l34"
FirstStage(isDecrypt) == IF ~isDecrypt THEN "l34" ELSE "l39"

\* the statement after each stage
NextStageUserFirst(at) ==
    CASE at = "l34" -> "l36"
      [] at = "l36" -> "l35"
      [] at = "l35" -> "l44"
      [] at = "l39" -> "l40"
      [] at = "l40" -> "l41"
      [] at = "l41" -> "l44"
NextStage(at) ==
    CASE at = "l34" -> "l35"
      [] at = "l35" -> "l36"
      [] at = "l36" -> "l44"
      [] at = "l39" -> "l40"
      [] at = "l40" -> "l41"
      [] at = "l41" -> "l44"

\* if (userKey) at lines 36 and 39: a string is truthy unless empty
RunsUserStageAlways(userKey) == TRUE
RunsUserStage(userKey) == userKey # <<>>

\* the record of a stage
Stage(name, key, reverse, after) ==
    [call |-> scall.calls, userKey |-> scall.seedKey, isDecrypt |-> scall.isDecrypt,
     stage |-> name, key |-> key, reverse |-> reverse,
     before |-> theArray, after |-> after]

\* a call shuffleArray(theArray, seedKey, isDecrypt): lines 14-15 and the branch
\* of line 32
CallShuffleArray ==
    /\ scall.pc = "idle"
    /\ scall.calls < MaxShuffleCalls
    /\ \E seedKey \in ShuffleKeys, isDecrypt \in BOOLEAN :
        scall' = [pc |-> FirstStage(isDecrypt), seedKey |-> seedKey, isDecrypt |-> isDecrypt,
                  len |-> Len(theArray), given |-> theArray, calls |-> scall.calls + 1]
    /\ UNCHANGED <<inputs, gilbertvars, bvars, pagevars, rlog, theArray, slog>>

\* array.reverse() (lines 34 and 41)
ShuffleReverseStage ==
    /\ scall.pc \in {"l34", "l41"}
    /\ \E after \in {JsReverse(theArray)} :
        /\ theArray' = after
        /\ slog' = Append(slog, Stage("reverse", <<>>, FALSE, after))
    /\ scall' = [scall EXCEPT !.pc = NextStage(scall.pc)]
    /\ UNCHANGED <<inputs, gilbertvars, bvars, pagevars, rlog>>

\* performShuffle(array, DEFAULT_KEY, ...) (lines 35 and 40)
ShuffleDefaultStage ==
    /\ scall.pc \in {"l35", "l40"}
    /\ \E after \in {performShuffle(theArray, DEFAULT_KEY, scall.pc = "l40", scall.len)} :
        /\ theArray' = after
        /\ slog' = Append(slog, Stage("default", DEFAULT_KEY, scall.pc = "l40", after))
    /\ scall' = [scall EXCEPT !.pc = NextStage(scall.pc)]
    /\ UNCHANGED <<inputs, gilbertvars, bvars, pagevars, rlog>>

\* if (userKey) performShuffle(array, userKey, ...) (lines 36 and 39)
ShuffleUserStage ==
    /\ scall.pc \in {"l36", "l39"}
    /\ IF RunsUserStage(scall.seedKey)
       THEN \E after \in {performShuffle(theArray, scall.seedKey, scall.pc = "l39", scall.len)} :
               /\ theArray' = after
               /\ slog' = Append(slog, Stage("user", scall.seedKey, scall.pc = "l39", after))
       ELSE UNCHANGED <<theArray, slog>>
    /\ scall' = [scall EXCEPT !.pc = NextStage(scall.pc)]
    /\ UNCHANGED <<inputs, gilbertvars, bvars, pagevars, rlog>>

\* return array (line 44)
ShuffleReturn ==
    /\ scall.pc = "l44"
    /\ scall' = [scall EXCEPT !.pc = "idle"]
    /\ UNCHANGED <<inputs, gilbertvars, bvars, pagevars, rlog, theArray, slog>>

NextShuffle ==
    \/ CallShuffleArray
    \/ ShuffleReverseStage
    \/ ShuffleDefaultStage
    \/ ShuffleUserStage
    \/ ShuffleReturn

SpecShuffle == InitShuffle /\ [][NextShuffle]_vars

(***************************************************************************)
(* Properties of GilbertAlgo, checked under SpecCurve and SpecGilbert.     *)
(***************************************************************************)
\* the cells of the w x h grid
Grid(w, h) == {<<x, y>> : x \in 0 .. w - 1, y \in 0 .. h - 1}

\* c lists every cell of the w x h grid exactly once
IsGridPermutation(c, w, h) ==
    /\ Len(c) = w * h
    /\ \A k \in DOMAIN c : c[k] \in Grid(w, h)
    /\ \A g \in Grid(w, h) : Cardinality({k \in DOMAIN c : c[k] = g}) = 1

\* a direct gilbert2d call has returned its curve
CurveReturned == pc = "idle" /\ ret.kind = "curve"

\* C1: for every width, height >= 1, gilbert2d(width, height) returns exactly
\* width * height cells, every cell of the grid exactly once and none outside
\* it.
C1_CurveIsPermutation == CurveReturned => IsGridPermutation(ret.curve, width, height)

\* C1 witness: the curve of the 5 x 3 grid (odd, prime sides) has been returned
C1_Witness == CurveReturned /\ width = 5 /\ height = 3 /\ Len(ret.curve) = 15

Manhattan(p, q) == Abs(p[1] - q[1]) + Abs(p[2] - q[2])
Chebyshev(p, q) ==
    IF Abs(p[1] - q[1]) >= Abs(p[2] - q[2]) THEN Abs(p[1] - q[1]) ELSE Abs(p[2] - q[2])

\* the positions k whose step c[k] -> c[k + 1] is not a unit step along one axis
BadSteps(c) == {k \in 1 .. Len(c) - 1 : Manhattan(c[k], c[k + 1]) # 1}

\* the sizes for which one diagonal step occurs: the longer side is odd and
\* the shorter side is even
OddByEven(w, h) ==
    LET long == IF w >= h THEN w ELSE h
        short == IF w >= h THEN h ELSE w
    IN  long % 2 = 1 /\ short % 2 = 0

\* C4 as claimed: every pair of consecutive entries of the returned curve is
\* one unit step along one axis (Manhattan distance 1), for every size.
C4_AllStepsAreUnitSteps == CurveReturned => BadSteps(ret.curve) = {}

\* C4 amended: consecutive entries are always neighbours in the 8-neighbourhood
\* (Chebyshev distance 1, no jump); every step is a unit step along one axis
\* unless the longer side is odd and the shorter side even, and then at most
\* one step of the curve is diagonal.
C4_StepsAreAdjacentUpToOneDiagonal ==
    CurveReturned =>
        /\ \A k \in 1 .. Len(ret.curve) - 1 : Chebyshev(ret.curve[k], ret.curve[k + 1]) = 1
        /\ ~OddByEven(width, height) => BadSteps(ret.curve) = {}
        /\ Cardinality(BadSteps(ret.curve)) <= 1

\* C4 witness: the 5 x 4 curve has been returned, with its diagonal step
C4_Witness ==
    /\ CurveReturned /\ width = 5 /\ height = 4
    /\ \E k \in BadSteps(ret.curve) : Manhattan(ret.curve[k], ret.curve[k + 1]) = 2

\* the samples of an ImageData object
DataOf(id) == bufs[imgs[id].data]

\* C2: decrypting what encrypt returned gives back the original buffer,
\* sample for sample.
C2_DecryptInvertsEncrypt ==
    \A e \in DOMAIN plog, d \in DOMAIN plog :
        (plog[e].type = "encrypt" /\ plog[d].type = "decrypt" /\ plog[d].in = plog[e].out)
            => DataOf(plog[d].out) = plog[e].inData

\* C2 witness: an encrypt that moved samples, followed by a decrypt of its result
C2_Witness ==
    \E e \in DOMAIN plog, d \in DOMAIN plog :
        /\ plog[e].type = "encrypt" /\ plog[d].type = "decrypt" /\ plog[d].in = plog[e].out
        /\ DataOf(plog[e].out) # plog[e].inData
        /\ width = 3 /\ height = 2

\* pixel q of a sample array, as its 4-channel tuple
PixelAt(data, q) == <<data[4 * q + 1], data[4 * q + 2], data[4 * q + 3], data[4 * q + 4]>>

\* the buffer position of a cell
PosOf(cell, w) == cell[1] + cell[2] * w

\* C6: encrypt rearranges the pixels: every pixel value occurs as often in the
\* output as in the input, and the targets T[(i + offset) mod N] of the N
\* iterations are N different positions, so each output position is written
\* from exactly one input pixel.
C6_EncryptPermutesPixels ==
    \A e \in DOMAIN plog :
        plog[e].type = "encrypt" =>
            LET w == imgs[plog[e].in].width
                n == w * imgs[plog[e].in].height
                inp == plog[e].inData
                out == DataOf(plog[e].out)
                T == plog[e].curve
            IN  /\ Len(out) = Len(inp)
                /\ \A q \in 0 .. n - 1 :
                      Cardinality({r \in 0 .. n - 1 : PixelAt(out, r) = PixelAt(inp, q)})
                          = Cardinality({r \in 0 .. n - 1 : PixelAt(inp, r) = PixelAt(inp, q)})
                /\ {PosOf(T[((k + plog[e].offset) % n) + 1], w) : k \in 0 .. n - 1} = 0 .. n - 1
                /\ \A k \in 0 .. n - 1 :
                      PixelAt(out, PosOf(T[((k + plog[e].offset) % n) + 1], w))
                          = PixelAt(inp, PosOf(T[k + 1], w))

\* C6 witness: an encrypt of a 4 x 3 image with repeated pixel values has returned
C6_Witness ==
    \E e \in DOMAIN plog :
        /\ plog[e].type = "encrypt" /\ width = 4 /\ height = 3
        /\ PixelAt(plog[e].inData, 0) = PixelAt(plog[e].inData, 2)
        /\ DataOf(plog[e].out) # plog[e].inData

\* C8: process never writes to its input: while it runs and after it has
\* returned, the input's samples are what they were at the call, and the
\* returned ImageData is another object, with another sample array, of the
\* same width and height.
C8_InputUntouched ==
    /\ (pc # "idle" /\ caller = "process") => DataOf(args.imgData) = args.was
    /\ \A e \in DOMAIN plog :
          /\ DataOf(plog[e].in) = plog[e].inData
          /\ plog[e].out # plog[e].in
          /\ imgs[plog[e].out].data # imgs[plog[e].in].data
          /\ imgs[plog[e].out].width = imgs[plog[e].in].width
          /\ imgs[plog[e].out].height = imgs[plog[e].in].height

\* C8 witness: both modes have returned, each with an output differing from its input
C8_Witness ==
    /\ \E e \in DOMAIN plog : plog[e].type = "encrypt" /\ DataOf(plog[e].out) # plog[e].inData
    /\ \E d \in DOMAIN plog : plog[d].type = "decrypt" /\ DataOf(plog[d].out) # plog[d].inData

\* C10: every call of gilbert2d returns (the recursion ends, with no error),
\* and a 1 x N or N x 1 grid is emitted by one invocation of generate2d, a
\* base case, as one straight run.  Checked under FairSpecCurve.
C10_Generate2dTerminates ==
    /\ [](gerr = "none")
    /\ [](pc = "gen" => <>(pc # "gen" /\ ret.kind # "throw"))
    /\ []((CurveReturned /\ height = 1)
            => (gcalls = 1 /\ ret.curve = [k \in 1 .. width |-> <<k - 1, 0>>]))
    /\ []((CurveReturned /\ width = 1)
            => (gcalls = 1 /\ ret.curve = [k \in 1 .. height |-> <<0, k - 1>>]))

\* C10 witness: the 1 x 5 grid has been returned as one run
C10_Witness == CurveReturned /\ width = 1 /\ height = 5 /\ Len(ret.curve) = 5 /\ gcalls = 1

(***************************************************************************)
(* Properties of BlockShuffleAlgo, checked under SpecBlock.                *)
(***************************************************************************)
BlockW == width \div level
BlockH == height \div level

\* width and height are exactly divisible by level
Aligned == width % level = 0 /\ height % level = 0

\* the tiles of the level x level grid of a canvas, in scan order
TilesOf(cv) == CutBlocks(cv, width, height, level, BlockW, BlockH)

\* the canvas positions no tile covers
Remainder == {j \in 1 .. width * height :
                 \/ (j - 1) % width >= level * BlockW
                 \/ (j - 1) \div width >= level * BlockH}

\* C3: with width and height divisible by level and any key, the empty one
\* included, an encrypt followed by a decrypt of its result with the same level
\* and key raises no error and puts every tile, and so every pixel, back where
\* it was before the encrypt.
C3_BlockDecryptInvertsEncrypt ==
    \A k \in 1 .. Len(blog) - 1 :
        (/\ Aligned
         /\ blog[k].type = "encrypt" /\ blog[k + 1].type = "decrypt"
         /\ blog[k + 1].key = blog[k].key
         /\ blog[k + 1].before = blog[k].after)
        => /\ blog[k].err = "none" /\ blog[k + 1].err = "none"
           /\ blog[k + 1].blocks = TilesOf(blog[k].before)
           /\ blog[k + 1].after = blog[k].before

\* C3 witness: a 3 x 3 grid of distinct tiles shuffled under 'abc' and restored
C3_Witness ==
    /\ Len(blog) = 2 /\ Aligned /\ level = 3 /\ width = 3 /\ height = 3
    /\ blog[1].type = "encrypt" /\ blog[2].type = "decrypt"
    /\ blog[1].key = <<97, 98, 99>> /\ blog[2].key = blog[1].key
    /\ blog[2].before = blog[1].after
    /\ blog[1].after # blog[1].before
    /\ canvas = blog[1].before

\* C5: when floor(width / level) or floor(height / level) is 0, process throws
\* its error having read no tile and painted nothing: the canvas is what it was
\* before the call.
C5_TooSmallThrowsBeforeMutation ==
    \A k \in DOMAIN blog :
        (BlockW = 0 \/ BlockH = 0)
        => /\ blog[k].err = "Error"
           /\ blog[k].blocks = <<>>
           /\ blog[k].after = blog[k].before
           /\ (k = Len(blog) => canvas \in {blog[k].before, image})

\* C5 witness: level 3 on a 2 x 3 canvas has thrown
C5_Witness ==
    /\ width = 2 /\ height = 3 /\ level = 3
    /\ Len(blog) > 0 /\ blog[1].err = "Error" /\ canvas = image

\* the tiles of two arrays are the same tiles, each as often in one as in the other
SameTiles(a, b) ==
    /\ Len(a) = Len(b)
    /\ \A j \in DOMAIN a :
          Cardinality({k \in DOMAIN a : a[k] = a[j]}) = Cardinality({k \in DOMAIN b : b[k] = a[j]})

\* C9: when width or height is not divisible by level, and a tile has at least
\* one pixel each way, process raises no error; the output consists of the
\* tiles of the top-left (level * blockW) x (level * blockH) region, rearranged,
\* and every position of the remainder strips is left cleared.
C9_RemainderDropped ==
    \A k \in DOMAIN blog :
        (~Aligned /\ BlockW >= 1 /\ BlockH >= 1)
        => /\ blog[k].err = "none"
           /\ \A j \in Remainder : blog[k].after[j] = Clear
           /\ TilesOf(blog[k].after) = blog[k].blocks
           /\ SameTiles(blog[k].blocks, TilesOf(blog[k].before))

\* C9 witness: level 3 on the 4 x 3 image of distinct opaque pixels has run
C9_Witness ==
    /\ width = 4 /\ height = 3 /\ level = 3
    /\ Len(blog) = 1 /\ blog[1].err = "none" /\ blog[1].type = "encrypt"
    /\ blog[1].before = ImagePattern(0, 4, 3)
    /\ Remainder # {}

\* the tiles of a canvas are pairwise distinct
TilesDistinct(cv) ==
    \A t \in {TilesOf(cv)} : \A j, k \in DOMAIN t : j # k => t[j] # t[k]

\* two encrypt calls on the same canvas of distinct tiles, level >= 3, under
\* different non-empty keys
TwoKeys(a, b) ==
    /\ level >= 3
    /\ blog[a].type = "encrypt" /\ blog[b].type = "encrypt"
    /\ blog[a].err = "none" /\ blog[b].err = "none"
    /\ blog[a].before = blog[b].before
    /\ TilesDistinct(blog[a].before)
    /\ blog[a].key # <<>> /\ blog[b].key # <<>> /\ blog[a].key # blog[b].key

\* the keys call for different swaps somewhere in a shuffle of level * level tiles
TargetsDiffer(key1, key2) ==
    \E seed \in 2 .. level * level : getRnd(key1, seed) # getRnd(key2, seed)

\* C7 as claimed: any two different non-empty keys give different tile
\* arrangements.
C7_DifferentKeysDifferentArrangements ==
    \A a, b \in DOMAIN blog : TwoKeys(a, b) => blog[a].blocks # blog[b].blocks

\* C7 amended: two different non-empty keys give different tile arrangements
\* only if getRnd differs between them for some seed in 2 .. level * level:
\* keys with the same swap targets throughout (any two one-character keys, all
\* of whose targets are 0) give the same arrangement.  The keys tried here whose
\* targets differ ('a' or 'b' against 'abc') do give different arrangements.
C7_ArrangementsDifferIffTargetsDiffer ==
    \A a, b \in DOMAIN blog :
        TwoKeys(a, b) =>
            /\ (blog[a].blocks # blog[b].blocks) <=> TargetsDiffer(blog[a].key, blog[b].key)
            /\ (blog[a].after # blog[b].after) <=> TargetsDiffer(blog[a].key, blog[b].key)

\* C7 witness: 'a' and 'abc' have arranged the same nine tiles differently
C7_Witness ==
    \E a, b \in DOMAIN blog :
        /\ TwoKeys(a, b)
        /\ blog[a].key = <<97>> /\ blog[b].key = <<97, 98, 99>>
        /\ blog[a].blocks # blog[b].blocks

(***************************************************************************)
(* Properties of getRnd, checked under SpecRnd and SpecRndWide.            *)
(***************************************************************************)
\* everything but the history of getRnd calls
allButRlog == <<inputs, gilbertvars, bvars, pagevars, theArray, scall, slog>>

C12_CurveReproducible ==
    /\ \A a, b \in DOMAIN glog :
          (glog[a].width = glog[b].width /\ glog[a].height = glog[b].height)
              => glog[a].curve = glog[b].curve
    /\ \A a \in DOMAIN glog, e \in DOMAIN plog :
          (glog[a].width = imgs[plog[e].in].width /\ glog[a].height = imgs[plog[e].in].height)
              => glog[a].curve = plog[e].curve
    /\ \A a \in DOMAIN glog : Len(glog[a].curve) = glog[a].width * glog[a].height
    /\ \A e \in DOMAIN plog :
          Len(plog[e].curve) = imgs[plog[e].in].width * imgs[plog[e].in].height
    /\ (pc = "gen" /\ gcalls = 0) => coordinates = <<>>

\* C12 witness: gilbert2d(3, 2) returned twice, a process call between the two
C12_Witness ==
    /\ Len(glog) = 2 /\ Len(plog) = 1
    /\ glog[1].call = 1 /\ glog[2].call = 3
    /\ glog[1].width = 3 /\ glog[1].height = 2
    /\ glog[2].width = 3 /\ glog[2].height = 2
    /\ glog[1].curve = glog[2].curve /\ Len(glog[2].curve) = 6

(***************************************************************************)
(* Properties of GilbertAlgo.process, checked under SpecGilbert.           *)
(***************************************************************************)
\* k is within 1/2 of ((sqrt(5) - 1) / 2) * n, the ratio taken between its
\* 7-digit decimal bounds 0.6180339 and 0.6180340
NearGoldenMultiple(k, n) ==
    /\ 20000000 * k >= 2 * 6180339 * n - 10000000
    /\ 20000000 * k <= 2 * 6180340 * n + 10000000

\* the running process call and its image
Running == pc # "idle" /\ caller = "process"
RunningImage == imgs[args.imgData]

\* C13: the rotation offset process uses is round(((sqrt(5) - 1) / 2) * width *
\* height); for a 3 x 2 image it is 4, and for 3 x 2 the first call of
\* generate2d takes a = (3, 0), along the width, because width >= height.
C13_OffsetIsGoldenRound ==
    /\ \A e \in DOMAIN plog :
          /\ NearGoldenMultiple(plog[e].offset, imgs[plog[e].in].width * imgs[plog[e].in].height)
          /\ (imgs[plog[e].in].width = 3 /\ imgs[plog[e].in].height = 2) => plog[e].offset = 4
    /\ (Running /\ pc = "loop")
          => NearGoldenMultiple(offset, RunningImage.width * RunningImage.height)
    /\ (Running /\ pc = "gen" /\ gcalls = 0)
          => LET f == Head(stack).f IN
             /\ f.x = 0 /\ f.y = 0
             /\ IF RunningImage.width >= RunningImage.height
                THEN f.ax = RunningImage.width /\ f.ay = 0 /\ f.bx = 0 /\ f.by = RunningImage.height
                ELSE f.ax = 0 /\ f.ay = RunningImage.height /\ f.bx = RunningImage.width /\ f.by = 0

\* C13 witness: process has returned on a 3 x 2 image, with offset 4 and a
\* curve of 6 cells from (0, 0) to (1, 0)
C13_Witness ==
    \E e \in DOMAIN plog :
        /\ imgs[plog[e].in].width = 3 /\ imgs[plog[e].in].height = 2
        /\ plog[e].offset = 4
        /\ plog[e].curve[1] = <<0, 0>> /\ plog[e].curve[6] = <<1, 0>>

\* the buffer position of T[(k + off) mod n], T[k] being sequence element k + 1
Target(T, k, off, n, w) == PosOf(T[((k + off) % n) + 1], w)
Source(T, k, w) == PosOf(T[k + 1], w)

\* C14: with T the traversal order, N = width * height and offset as process
\* computes it: in encrypt mode the output pixel at T[(i + offset) mod N] is the
\* input pixel at T[i], in decrypt mode the output pixel at T[i] is the input
\* pixel at T[(i + offset) mod N], for every i in [0, N); the positions the
\* mapping assigns are all N positions, so no output pixel is left as the
\* initial copy made of it.  While the loop runs, the pixels of the iterations
\* done are already those of the mapping.
C14_PixelMapping ==
    /\ \A e \in DOMAIN plog :
          LET w == imgs[plog[e].in].width
              n == w * imgs[plog[e].in].height
              inp == plog[e].inData
              out == DataOf(plog[e].out)
              T == plog[e].curve
              off == plog[e].offset
          IN  /\ Len(out) = 4 * n
              /\ plog[e].type = "encrypt" =>
                    /\ \A k \in 0 .. n - 1 :
                          PixelAt(out, Target(T, k, off, n, w)) = PixelAt(inp, Source(T, k, w))
                    /\ {Target(T, k, off, n, w) : k \in 0 .. n - 1} = 0 .. n - 1
              /\ plog[e].type = "decrypt" =>
                    /\ \A k \in 0 .. n - 1 :
                          PixelAt(out, Source(T, k, w)) = PixelAt(inp, Target(T, k, off, n, w))
                    /\ {Source(T, k, w) : k \in 0 .. n - 1} = 0 .. n - 1
    /\ (Running /\ pc = "loop") =>
          LET w == RunningImage.width
              n == w * RunningImage.height
              out == DataOf(newImgData)
          IN  \A k \in 0 .. i - 1 :
                 IF args.type = "encrypt"
                 THEN PixelAt(out, Target(coordinates, k, offset, n, w))
                          = PixelAt(args.was, Source(coordinates, k, w))
                 ELSE PixelAt(out, Source(coordinates, k, w))
                          = PixelAt(args.was, Target(coordinates, k, offset, n, w))

\* C14 witness: a decrypt of a 2 x 3 image of different pixels has returned,
\* its first curve cell holding what the input held 4 cells further on
C14_Witness ==
    \E e \in DOMAIN plog :
        /\ plog[e].type = "decrypt"
        /\ imgs[plog[e].in].width = 2 /\ imgs[plog[e].in].height = 3
        /\ plog[e].offset = 4
        /\ PixelAt(DataOf(plog[e].out), Source(plog[e].curve, 0, 2))
              = PixelAt(plog[e].inData, Source(plog[e].curve, 4, 2))
        /\ PixelAt(DataOf(plog[e].out), Source(plog[e].curve, 0, 2))
              # PixelAt(plog[e].inData, Source(plog[e].curve, 0, 2))

(***************************************************************************)
(* Properties of shuffleArray and performShuffle, checked under            *)
(* SpecShuffle.                                                            *)
(***************************************************************************)
\* stage k of the log is a performShuffle pass in the given direction
IsPass(k, reverse) == slog[k].stage # "reverse" /\ slog[k].reverse = reverse

\* stage k is a reverse pass run on what the forward pass j left, with the same
\* non-empty key and the same array length
Undoes(k, j) ==
    /\ j < k
    /\ IsPass(j, FALSE)
    /\ IsPass(k, TRUE)
    /\ slog[j].key # <<>>
    /\ slog[k].key = slog[j].key
    /\ slog[k].before = slog[j].after
    /\ Len(slog[k].before) = Len(slog[j].before)

\* C15: a performShuffle pass with reverse = true, run on the result of a pass
\* with reverse = false with the same non-empty key and the same array length,
\* leaves the array in the order it had before the forward pass.
C15_ReversePassUndoesForwardPass ==
    \A j, k \in DOMAIN slog : Undoes(k, j) => slog[k].after = slog[j].before

\* an encrypt call with key 'abcdefghi' on six elements, whose user-key forward
\* pass moved elements, followed by the decrypt call with the same key, whose
\* user-key reverse pass has run
C15_Witness ==
    /\ Len(slog) >= 4
    /\ Undoes(4, 3)
    /\ Len(slog[3].key) = 9
    /\ Len(slog[3].before) = 6
    /\ slog[3].after # slog[3].before
    /\ slog[4].after = slog[3].before


\* the stages of call c, in the order they ran
StagesOf(c) == SelectSeq(slog, LAMBDA e : e.call = c)

\* the stages the claim lists, as <<stage, key, reverse>>
EncryptStages(userKey) ==
    <<(<<"reverse", <<>>, FALSE>>), (<<"default", DEFAULT_KEY, FALSE>>)>>
        \o (IF userKey # <<>> THEN <<(<<"user", userKey, FALSE>>)>> ELSE <<>>)
DecryptStages(userKey) ==
    (IF userKey # <<>> THEN <<(<<"user", userKey, TRUE>>)>> ELSE <<>>)
        \o <<(<<"default", DEFAULT_KEY, TRUE>>), (<<"reverse", <<>>, FALSE>>)>>
ListedStages(userKey, isDecrypt) ==
    IF isDecrypt THEN DecryptStages(userKey) ELSE EncryptStages(userKey)

\* call c has returned
Returned(c) == c < scall.calls \/ (c = scall.calls /\ scall.pc \in {"l44", "idle"})

\* the stages run of call c are the first of the listed ones, each run on what the
\* one before left, and all of them once the call has returned
InListedOrder(c) ==
    \A run \in {StagesOf(c)} :
        IF run = <<>> THEN ~Returned(c)
        ELSE \A listed \in {ListedStages(run[1].userKey, run[1].isDecrypt)} :
                /\ Len(run) <= Len(listed)
                /\ \A k \in DOMAIN run : <<run[k].stage, run[k].key, run[k].reverse>> = listed[k]
                /\ \A k \in DOMAIN run : k > 1 => run[k].before = run[k - 1].after
                /\ Returned(c) => Len(run) = Len(listed)

\* C16: shuffleArray runs its stages in a fixed order: encrypt reverses the
\* array, forward-shuffles with DEFAULT_KEY, then forward-shuffles with the user
\* key if it is non-empty; decrypt reverse-shuffles with the user key if it is
\* non-empty, reverse-shuffles with DEFAULT_KEY, then reverses the array.  The
\* array a returned call leaves is shuffleArray of the array it was given.
C16_StagesInFixedOrder ==
    /\ \A c \in 1 .. scall.calls : InListedOrder(c)
    /\ (scall.calls > 0 /\ Returned(scall.calls))
           => theArray = shuffleArray(scall.given, scall.seedKey, scall.isDecrypt)

\* an encrypt and then a decrypt with key 'abcdefghi' on six elements have both
\* returned: six stages, the decrypt's the inverses of the encrypt's in the
\* opposite order
C16_Witness ==
    /\ scall.calls = 2
    /\ scall.pc = "idle"
    /\ Len(slog) = 6
    /\ Len(theArray) = 6
    /\ Len(scall.seedKey) = 9
    /\ <<slog[1].stage, slog[2].stage, slog[3].stage>> = <<"reverse", "default", "user">>
    /\ <<slog[4].stage, slog[5].stage, slog[6].stage>> = <<"user", "default", "reverse">>
    /\ \A k \in 1 .. 3 : ~slog[k].reverse /\ ~slog[k].isDecrypt
    /\ \A k \in 4 .. 6 : slog[k].isDecrypt
    /\ slog[4].key = slog[3].key
    /\ slog[3].after # slog[2].after


\* the keys getRnd is called with in a logged stage: the key of a pass whose
\* loop body runs (lines 21 and 26), none in array.reverse()
GetRndKeys(e) ==
    IF e.stage = "reverse" THEN {}
    ELSE IF e.reverse
         THEN (IF Len(e.before) >= 1 THEN {e.key} ELSE {})
         ELSE (IF Len(e.before) >= 2 THEN {e.key} ELSE {})

\* C18: with an empty user key no user-key stage runs in either direction: a
\* returned encrypt leaves the reversed array forward-shuffled with DEFAULT_KEY
\* alone, a returned decrypt leaves the array reverse-shuffled with DEFAULT_KEY
\* and then reversed, and no stage calls getRnd with an empty key.
C18_EmptyKeySkipsUserStage ==
    /\ \A k \in DOMAIN slog :
          /\ slog[k].userKey = <<>> => slog[k].stage # "user"
          /\ <<>> \notin GetRndKeys(slog[k])
    /\ (scall.calls > 0 /\ Returned(scall.calls) /\ scall.seedKey = <<>>) =>
          /\ Len(StagesOf(scall.calls)) = 2
          /\ theArray =
                IF ~scall.isDecrypt
                THEN performShuffle(JsReverse(scall.given), DEFAULT_KEY, FALSE, scall.len)
                ELSE JsReverse(performShuffle(scall.given, DEFAULT_KEY, TRUE, scall.len))

\* an encrypt and then a decrypt of six elements, both with the empty key, have
\* returned: two stages each, the default-key passes moved elements and called
\* getRnd
C18_Witness ==
    /\ scall.calls = 2
    /\ scall.pc = "idle"
    /\ scall.seedKey = <<>>
    /\ scall.isDecrypt
    /\ Len(slog) = 4
    /\ \A k \in 1 .. 4 : slog[k].userKey = <<>>
    /\ ~slog[1].isDecrypt
    /\ Len(theArray) = 6
    /\ slog[2].after # slog[2].before
    /\ GetRndKeys(slog[2]) = {DEFAULT_KEY}
    /\ GetRndKeys(slog[3]) = {DEFAULT_KEY}


(***************************************************************************)
(* The value of getRnd, checked under SpecRndWide.                         *)
(***************************************************************************)
\* idx2 of a logged call: (character code of key[seed mod length]) mod length
Idx2(e) == e.key[(e.seed % Len(e.key)) + 1] % Len(e.key)

\* f = '0.' + idx2 is idx2 / Denominator(idx2): 7 -> 7/10, 12 -> 12/100, 0 -> 0/10
\* (keys shorter than 100 characters)
Denominator(n) == IF n < 10 THEN 10 ELSE 100

\* floor(f * seed) in exact arithmetic
ExactFloor(e) == (Idx2(e) * e.seed) \div Denominator(Idx2(e))

\* f * seed is an integer
ProductIsInteger(e) == (Idx2(e) * e.seed) % Denominator(Idx2(e)) = 0

\* C17 as stated: getRnd(key, seed) is floor(f * seed), f the decimal fraction
\* whose digits after the point are the decimal digits of idx2.
C17_ValueIsExactFloor ==
    \A k \in DOMAIN rlog : rlog[k].key # <<>> => rlog[k].value = ExactFloor(rlog[k])

\* C17, amended: getRnd(key, seed) is the floor of the double-precision product
\* of f and seed, f the decimal fraction whose digits are those of idx2.  It is
\* floor(f * seed) whenever f * seed is not an integer; when f * seed is an
\* integer m it is m, or m - 1 where the double product falls short of m.
C17_ValueIsFloorOfDoubleProduct ==
    \A k \in DOMAIN rlog : rlog[k].key # <<>> =>
        \A e \in {rlog[k]} :
            /\ ~ProductIsInteger(e) => e.value = ExactFloor(e)
            /\ ProductIsInteger(e) =>
                  e.value = IF Idx2(e) # 0 /\ ProductBelow(Idx2(e), Denominator(Idx2(e)), e.seed)
                            THEN ExactFloor(e) - 1
                            ELSE ExactFloor(e)

\* getRnd('abcdefghi', 90): idx = 0, idx2 = 97 mod 9 = 7, f = 0.7, and the
\* double product 0.7 * 90 is 62.99999999999999: the value is 62
C17_Witness ==
    /\ Len(rlog) = 1
    /\ Len(rlog[1].key) = 9
    /\ rlog[1].seed = 90
    /\ Idx2(rlog[1]) = 7
    /\ ProductIsInteger(rlog[1])
    /\ ExactFloor(rlog[1]) = 63
    /\ rlog[1].value = 62


(***************************************************************************)
(* BlockShuffleAlgo.process on sizes level does not divide, and the tile   *)
(* reassembly, checked under SpecBlock.                                    *)
(***************************************************************************)
\* calls k and k + 1 are an encrypt and a decrypt of its result with the same key
EncryptThenDecrypt(k) ==
    /\ blog[k].type = "encrypt"
    /\ blog[k + 1].type = "decrypt"
    /\ blog[k + 1].key = blog[k].key
    /\ blog[k + 1].before = blog[k].after

\* the canvas positions of the covered top-left (level * blockW) x (level * blockH) region
Covered == (1 .. width * height) \ Remainder

\* C19: with width or height not divisible by level and blockW, blockH >= 1, an
\* encrypt followed by a decrypt with the same level and key raises no error and
\* leaves on every position of the covered top-left region the pixel that was
\* there before the encrypt; the canvas can differ from the original only on
\* the remainder positions.
C19_CoveredRegionRestored ==
    \A k \in 1 .. Len(blog) - 1 :
        (~Aligned /\ BlockW >= 1 /\ BlockH >= 1 /\ EncryptThenDecrypt(k))
        => /\ blog[k].err = "none" /\ blog[k + 1].err = "none"
           /\ \A j \in Covered : blog[k + 1].after[j] = blog[k].before[j]
           /\ {j \in 1 .. width * height : blog[k + 1].after[j] # blog[k].before[j]} \subseteq Remainder

\* a 4 x 3 canvas at level 3 (1 x 1 tiles, the fourth column uncovered),
\* encrypted and decrypted with key 'abc': the encrypt moved covered pixels, the
\* decrypt put them back, and a remainder pixel is no longer the original
C19_Witness ==
    /\ width = 4 /\ height = 3 /\ level = 3
    /\ Len(blog) = 2
    /\ EncryptThenDecrypt(1)
    /\ blog[1].key = <<97, 98, 99>>
    /\ image = blog[1].before
    /\ \E j \in Covered : blog[1].after[j] # blog[1].before[j]
    /\ \A j \in Covered : canvas[j] = image[j]
    /\ \E j \in Remainder : canvas[j] # image[j]


\* call k got past the size check of lines 52-54 and reassembled its tiles
Reassembled(k) == BlockW >= 1 /\ BlockH >= 1 /\ k \in DOMAIN blog

\* how many entries of the array arr are the tile t
Count(arr, t) == Cardinality({j \in DOMAIN arr : arr[j] = t})

\* C20: in the reassembly loops the guard index < blocks.length holds at each of
\* the level * level iterations: the shuffle leaves an array of level * level
\* tiles with no missing entry, the tiles that were cut, so every grid position
\* is repainted with the tile at its index, none is skipped and no error is
\* raised.
C20_EveryGridPositionRepainted ==
    \A k \in DOMAIN blog : Reassembled(k) =>
        \A cut \in {TilesOf(blog[k].before)} :
            /\ Len(blog[k].blocks) = level * level
            /\ \A n \in 0 .. level * level - 1 : n < Len(blog[k].blocks)
            /\ \A j \in DOMAIN blog[k].blocks : blog[k].blocks[j] # Undefined
            /\ \A j \in DOMAIN cut : Count(blog[k].blocks, cut[j]) = Count(cut, cut[j])
            /\ blog[k].err = "none"
            /\ TilesOf(blog[k].after) = blog[k].blocks

\* a 3 x 3 canvas of nine distinct 1 x 1 tiles encrypted at level 3 with key
\* 'abc': the shuffle reordered the nine tiles and each grid position shows the
\* tile at its index
C20_Witness ==
    /\ width = 3 /\ height = 3 /\ level = 3
    /\ Len(blog) >= 1
    /\ blog[1].type = "encrypt"
    /\ blog[1].key = <<97, 98, 99>>
    /\ TilesDistinct(blog[1].before)
    /\ Len(blog[1].blocks) = 9
    /\ blog[1].blocks # TilesOf(blog[1].before)
    /\ TilesOf(blog[1].after) = blog[1].blocks
    /\ blog[1].err = "none"


(***************************************************************************)
(* The swap targets of performShuffle, checked under SpecShuffle.          *)
(***************************************************************************)
\* the targets a logged pass computes: target = getRnd(key, i + 1) at index i
\* (lines 21 and 26)
TargetsOf(e) == [n \in 0 .. Len(e.before) - 1 |-> getRnd(e.key, n + 1)]

\* arr2 holds the elements of arr1, each as often
IsRearrangement(arr1, arr2) ==
    /\ Len(arr1) = Len(arr2)
    /\ \A j \in DOMAIN arr1 : Count(arr2, arr1[j]) = Count(arr1, arr1[j])

\* C25: for a non-empty key and every index i >= 0 the target getRnd(key, i + 1)
\* lies in 0 .. i, and getRnd(key, 1) = 0; so every swap of performShuffle stays
\* inside the array, the length does not change and the array a pass leaves is
\* a permutation of the elements it was given.
C25_TargetsInsideArray ==
    \A k \in DOMAIN slog : (slog[k].stage # "reverse" /\ slog[k].key # <<>>) =>
        \A t \in {TargetsOf(slog[k])} :
            /\ \A n \in DOMAIN t : 0 <= t[n] /\ t[n] <= n
            /\ 0 \in DOMAIN t => t[0] = 0
            /\ Len(slog[k].after) = Len(slog[k].before)
            /\ \A j \in DOMAIN slog[k].after : slog[k].after[j] # Undefined
            /\ IsRearrangement(slog[k].before, slog[k].after)

\* a forward pass with key 'hadsky.com' over six elements: the target at index 3
\* is 2, and the pass moved elements
C25_Witness ==
    /\ Len(slog) >= 2
    /\ slog[2].stage = "default"
    /\ ~slog[2].reverse
    /\ Len(slog[2].before) = 6
    /\ TargetsOf(slog[2])[3] = 2
    /\ TargetsOf(slog[2])[0] = 0
    /\ slog[2].after # slog[2].before
    /\ IsRearrangement(slog[2].before, slog[2].after)


(***************************************************************************)
(* The range of the offset of GilbertAlgo.process, checked under           *)
(* SpecGilbert.                                                            *)
(***************************************************************************)
\* the number of pixels of the image a logged call was given
PixelCount(e) == imgs[e.in].width * imgs[e.in].height

\* C26: for an image of width * height >= 2 pixels the offset of process lies
\* in 1 .. width * height - 1, so offset mod (width * height) is not 0 and
\* encrypt writes every pixel to a position other than its own; for the 1 x 1
\* image offset mod 1 = 0 and the image is mapped to itself.
C26_OffsetLeavesNoFixedPosition ==
    \A e \in DOMAIN plog :
        \A n \in {PixelCount(plog[e])} :
            /\ n >= 2 =>
                  /\ 1 <= plog[e].offset /\ plog[e].offset <= n - 1
                  /\ plog[e].offset % n # 0
                  /\ plog[e].type = "encrypt" =>
                        \A k \in 0 .. n - 1 :
                            /\ Target(plog[e].curve, k, plog[e].offset, n, imgs[plog[e].in].width)
                                  # Source(plog[e].curve, k, imgs[plog[e].in].width)
                            /\ PixelAt(DataOf(plog[e].out),
                                       Target(plog[e].curve, k, plog[e].offset, n, imgs[plog[e].in].width))
                                  = PixelAt(plog[e].inData, Source(plog[e].curve, k, imgs[plog[e].in].width))
            /\ n = 1 =>
                  /\ plog[e].offset % n = 0
                  /\ DataOf(plog[e].out) = plog[e].inData

\* an encrypt of a 4 x 3 image has returned with offset 7 of 12: no pixel is
\* written to its own position, and the output differs from the input
C26_Witness ==
    \E e \in DOMAIN plog :
        /\ plog[e].type = "encrypt"
        /\ imgs[plog[e].in].width = 4 /\ imgs[plog[e].in].height = 3
        /\ plog[e].offset = 7
        /\ \A k \in 0 .. 11 : Target(plog[e].curve, k, 7, 12, 4) # Source(plog[e].curve, k, 4)
        /\ DataOf(plog[e].out) # plog[e].inData


(***************************************************************************)
(* The two modes of shuffleArray in either order, checked under            *)
(* SpecShuffle.                                                            *)
(***************************************************************************)
\* the array call c was given and the array it returned
GivenTo(c) == StagesOf(c)[1].before
ReturnedBy(c) == StagesOf(c)[Len(StagesOf(c))].after

\* calls c and c + 1 have returned, in opposite modes and with the same key
OppositeModes(c) ==
    /\ c + 1 <= scall.calls
    /\ Returned(c + 1)
    /\ StagesOf(c)[1].isDecrypt # StagesOf(c + 1)[1].isDecrypt
    /\ StagesOf(c)[1].userKey = StagesOf(c + 1)[1].userKey

\* C27: the two modes of shuffleArray are inverse in both orders: for any array
\* and any key, empty or not, an encrypt after a decrypt with the same key
\* returns the array to its original order, as a decrypt after an encrypt does.
C27_ModesInverseInBothOrders ==
    \A c \in 1 .. scall.calls - 1 : OppositeModes(c) => ReturnedBy(c + 1) = GivenTo(c)

\* six elements decrypted and then encrypted with key 'abcdefghi': the decrypt
\* reordered them and the encrypt put them back
C27_Witness ==
    /\ scall.calls = 2
    /\ scall.pc = "idle"
    /\ OppositeModes(1)
    /\ StagesOf(1)[1].isDecrypt
    /\ Len(scall.seedKey) = 9
    /\ Len(theArray) = 6
    /\ ReturnedBy(1) # GivenTo(1)
    /\ theArray = GivenTo(1)


(***************************************************************************)
(* The page (src/app/image-crypto/page.tsx): the image list, the run       *)
(* handlers and processImage, one action per event handler and per          *)
(* callback of the event loop.  A handler runs to its first await; what     *)
(* follows an await runs when the awaited promise resolves.                 *)
(***************************************************************************)
\* an optional field that is undefined
NoUrl == 0
NoBlob == 0
NoAlgo == "undefined"
NoMode == "undefined"

\* the size of the image file that gets the id n: the files tried are in turn
\* larger (100 x 100) and smaller (30 x 60) than the default blockLevel 40
FileSize(n) == IF n % 2 = 1 THEN <<100, 100>> ELSE <<30, 60>>

\* the ImageItem handleFiles builds for a file (lines 175-182); the file and its
\* object URL are named by the number of the id
NewItem(id, size) ==
    [id |-> id, file |-> id, preview |-> id, width |-> size[1], height |-> size[2],
     resultPreview |-> NoUrl, resultBlob |-> NoBlob, status |-> "idle",
     usedAlgo |-> NoAlgo, lastMode |-> NoMode]

\* hasImages, hasProcessed (lines 58-59)
hasImages == Len(images) > 0
hasProcessed == \E j \in DOMAIN images : images[j].status = "done"

\* the engine call of lines 78-84 throws: BlockShuffleAlgo.process on an image
\* with fewer than level pixels in a direction (part_000 lines 49-54)
EngineThrows(item, options) ==
    /\ options.algo = "block"
    /\ \/ item.width \div options.blockLevel = 0
       \/ item.height \div options.blockLevel = 0

\* a blob canvas.toBlob hands to its callback, and an object URL made of one
ABlob == 1
AnUrl == 1

\* what processImage resolves with (lines 90-97; 99, 104, 107)
Done(item, options, mode) ==
    [item EXCEPT !.status = "done", !.resultBlob = ABlob, !.resultPreview = AnUrl,
                 !.usedAlgo = options.algo, !.lastMode = mode]
Failed(item) == [item EXCEPT !.status = "error"]

\* prev.map(p => p.id === id ? f(p) : p) and prev.map((p, i) => i === index ? f(p) : p)
Processing(p) == [p EXCEPT !.status = "processing"]
MarkById(list, id) == [j \in DOMAIN list |-> IF list[j].id = id THEN Processing(list[j]) ELSE list[j]]
MarkByIndex(list, index) == [j \in DOMAIN list |-> IF j - 1 = index THEN Processing(list[j]) ELSE list[j]]
StoreById(list, id, res) == [j \in DOMAIN list |-> IF list[j].id = id THEN res ELSE list[j]]
StoreByIndex(list, index, res) == [j \in DOMAIN list |-> IF j - 1 = index THEN res ELSE list[j]]

\* the item a run's pending processImage was given: the first of the items of
\* its snapshot that are left to process
ItemOf(r) == Head(r.queue)

\* run t awaits processImage
Pending(t) == runs[t].at # "returned"

\* the files handed to handleFiles and the runs started so far
RECURSIVE FilesIn(_)
FilesIn(ups) == IF ups = <<>> THEN 0 ELSE Head(ups) + FilesIn(Tail(ups))
Work == nextId + FilesIn(uploads) + started

\* whether one more run may start, and the place that holds it
CanRun == Work < MaxWork
FreeRun == CHOOSE t \in DOMAIN runs : ~Pending(t) /\ \A u \in 1 .. t - 1 : Pending(u)

\* ---- the user's events ----

\* handleFiles(fileList) with n image files (lines 167-171): the list is appended
\* to only after createImageBitmap has decoded every file
FilesCall(n) ==
    /\ Work + n <= MaxWork
    /\ uploads' = Append(uploads, n)

HandleFiles ==
    /\ \E n \in 1 .. 2 : FilesCall(n)
    /\ UNCHANGED <<inputs, gilbertvars, bvars, labvars, images, algo, blockLevel, isProcessing,
                   dragvars, runs, nextId, started>>

\* setAlgo (lines 280-281); blockLevel is left at its default
SetAlgo ==
    /\ \E a \in {"gilbert", "block"} : a # algo /\ algo' = a
    /\ UNCHANGED <<inputs, gilbertvars, bvars, labvars, images, blockLevel, isProcessing,
                   dragvars, runs, uploads, nextId, started>>

\* a call of a run handler, with the processImage it starts (timer pending)
NewRun(kind, mode, options, queue, index) ==
    [kind |-> kind, mode |-> mode, options |-> options, queue |-> queue,
     index |-> index, at |-> "timer"]

\* the state read at line 117 (135, 145)
Options == [algo |-> algo, blockLevel |-> blockLevel]

\* if (!hasImages || isProcessing) return (line 115)
RunAllReturnsUnlessEmpty == ~hasImages
RunAllReturns == ~hasImages \/ isProcessing

\* handleRunAll(mode) up to its first await (lines 114-122)
HandleRunAll ==
    /\ ~RunAllReturns
    /\ CanRun
    /\ isProcessing' = TRUE
    /\ \E mode \in {"encrypt", "decrypt"} :
        runs' = [runs EXCEPT ![FreeRun] = NewRun("all", mode, Options, images, -1)]
    /\ images' = MarkById(images, images[1].id)
    /\ UNCHANGED <<inputs, gilbertvars, bvars, labvars, algo, blockLevel, dragvars, uploads,
                   nextId>>
    /\ started' = started + 1

\* handleRunSingle(index, mode) up to its await (lines 131-135); its buttons are
\* rendered for an item that is not done (lines 396, 407-408)
HandleRunSingle ==
    /\ CanRun
    /\ \E index \in 0 .. Len(images) - 1, mode \in {"encrypt", "decrypt"} :
        /\ images[index + 1].status # "processing"
        /\ images[index + 1].status # "done"
        /\ runs' = [runs EXCEPT ![FreeRun] = NewRun("single", mode, Options, <<images[index + 1]>>, index)]
        /\ images' = MarkByIndex(images, index)
    /\ UNCHANGED <<inputs, gilbertvars, bvars, labvars, algo, blockLevel, isProcessing, dragvars,
                   uploads, nextId>>
    /\ started' = started + 1

\* handleSwitchAlgo(index) up to its await (lines 140-145)
HandleSwitchAlgo ==
    /\ CanRun
    /\ \E index \in 0 .. Len(images) - 1 :
        \E item \in {images[index + 1]} :
            /\ item.status = "done" /\ item.usedAlgo # NoAlgo /\ item.lastMode # NoMode
            /\ runs' = [runs EXCEPT ![FreeRun] =
                            NewRun("switch", item.lastMode,
                                   [algo |-> IF item.usedAlgo = "gilbert" THEN "block" ELSE "gilbert",
                                    blockLevel |-> blockLevel],
                                   <<item>>, index)]
            /\ images' = MarkByIndex(images, index)
    /\ UNCHANGED <<inputs, gilbertvars, bvars, labvars, algo, blockLevel, isProcessing, dragvars,
                   uploads, nextId>>
    /\ started' = started + 1

\* the item handleResetAll puts in place of an item (lines 154-161)
ResetItemKeepsAlgo(item) ==
    [item EXCEPT !.status = "idle", !.resultPreview = NoUrl, !.resultBlob = NoBlob,
                 !.lastMode = NoMode]
ResetItem(item) ==
    [item EXCEPT !.status = "idle", !.resultPreview = NoUrl, !.resultBlob = NoBlob,
                 !.usedAlgo = NoAlgo, !.lastMode = NoMode]

\* handleResetAll (lines 151-164); its button is disabled unless hasProcessed and
\* not isProcessing (line 317)
HandleResetAll ==
    /\ hasProcessed /\ ~isProcessing
    /\ images' = [j \in DOMAIN images |-> ResetItem(images[j])]
    /\ UNCHANGED <<inputs, gilbertvars, bvars, labvars, algo, blockLevel, isProcessing, dragvars,
                   runs, uploads, nextId, started>>

\* handleRemove(index) (lines 203-213)
HandleRemove ==
    /\ \E index \in 0 .. Len(images) - 1 :
        images' = [j \in 1 .. Len(images) - 1 |-> IF j - 1 < index THEN images[j] ELSE images[j + 1]]
    /\ UNCHANGED <<inputs, gilbertvars, bvars, labvars, algo, blockLevel, isProcessing, dragvars,
                   runs, uploads, nextId, started>>

\* ---- drag and drop (lines 188-201) ----

\* Math.max(0, dragCounterRef.current - 1) (line 195)
LeaveCounterUnclamped(c) == c - 1
LeaveCounter(c) == IF c - 1 > 0 THEN c - 1 ELSE 0

HandleDragEnter ==
    /\ dragCounter < MaxDrag
    /\ dragCounter' = dragCounter + 1
    /\ isDragging' = TRUE
    /\ UNCHANGED <<inputs, gilbertvars, bvars, labvars, images, algo, blockLevel, isProcessing,
                   runs, uploads, nextId, started>>

HandleDragOver ==
    UNCHANGED vars

HandleDragLeave ==
    /\ dragCounter' = LeaveCounter(dragCounter)
    /\ isDragging' = IF dragCounter' = 0 THEN FALSE ELSE isDragging
    /\ UNCHANGED <<inputs, gilbertvars, bvars, labvars, images, algo, blockLevel, isProcessing,
                   runs, uploads, nextId, started>>

\* handleDrop, with handleFiles on the n image files dropped (none: it returns)
HandleDrop ==
    /\ isDragging' = FALSE
    /\ dragCounter' = 0
    /\ \E n \in 0 .. 2 : IF n = 0 THEN UNCHANGED uploads ELSE FilesCall(n)
    /\ UNCHANGED <<inputs, gilbertvars, bvars, labvars, images, algo, blockLevel, isProcessing,
                   runs, nextId, started>>

\* ---- the callbacks of the event loop ----

\* the sequence ups without its element u
Without(ups, u) == [j \in 1 .. Len(ups) - 1 |-> IF j < u THEN ups[j] ELSE ups[j + 1]]

\* createImageBitmap has decoded the files of a handleFiles call: lines 175-185
FilesDecoded ==
    /\ \E u \in DOMAIN uploads :
        /\ images' = images \o [j \in 1 .. uploads[u] |-> NewItem(nextId + j, FileSize(nextId + j))]
        /\ nextId' = nextId + uploads[u]
        /\ uploads' = Without(uploads, u)
    /\ UNCHANGED <<inputs, gilbertvars, bvars, labvars, algo, blockLevel, isProcessing, dragvars,
                   runs, started>>

\* createImageBitmap rejects for a file: handleFiles ends at line 171
DecodeFails ==
    /\ \E u \in DOMAIN uploads : uploads' = Without(uploads, u)
    /\ UNCHANGED <<inputs, gilbertvars, bvars, labvars, images, algo, blockLevel, isProcessing,
                   dragvars, runs, nextId, started>>

\* the promise of run t's processImage resolves with res: the handler resumes
\* after its await (lines 123-127; 136; 146)
Resume(t, res) ==
    \E r \in {runs[t]} :
        IF r.kind = "all"
        THEN \E stored \in {StoreById(images, ItemOf(r).id, res)} :
                /\ IF Len(r.queue) > 1
                   THEN /\ images' = MarkById(stored, r.queue[2].id)
                        /\ runs' = [runs EXCEPT ![t].queue = Tail(r.queue), ![t].at = "timer"]
                        /\ UNCHANGED isProcessing
                   ELSE /\ images' = stored
                        /\ runs' = [runs EXCEPT ![t] = NoRun]
                        /\ isProcessing' = FALSE
        ELSE \E stored \in {StoreByIndex(images, r.index, res)} :
                /\ images' = stored
                /\ runs' = [runs EXCEPT ![t] = NoRun]
                /\ UNCHANGED isProcessing

\* the timer of line 64 fires: lines 65-71, or the catch of lines 105-108 when
\* getContext returned null
TimerFires(t) ==
    /\ runs[t].at = "timer"
    /\ \E ctx \in BOOLEAN :
        IF ctx
        THEN /\ runs' = [runs EXCEPT ![t].at = "loading"]
             /\ UNCHANGED <<images, isProcessing>>
        ELSE Resume(t, Failed(ItemOf(runs[t])))
    /\ UNCHANGED <<inputs, gilbertvars, bvars, labvars, algo, blockLevel, dragvars, uploads,
                   nextId, started>>

\* img.onload (lines 73-102): the engine runs and toBlob is called, or the
\* engine throws; the throw leaves the callback, outside the try of line 65,
\* and nothing is left that resolves the promise
ImageLoads(t) ==
    /\ runs[t].at = "loading"
    /\ runs' = [runs EXCEPT ![t].at = IF EngineThrows(ItemOf(runs[t]), runs[t].options)
                                      THEN "stuck" ELSE "encoding"]
    /\ UNCHANGED <<inputs, gilbertvars, bvars, labvars, images, algo, blockLevel, isProcessing,
                   dragvars, uploads, nextId, started>>

\* img.onerror (line 104)
ImageFails(t) ==
    /\ runs[t].at = "loading"
    /\ Resume(t, Failed(ItemOf(runs[t])))
    /\ UNCHANGED <<inputs, gilbertvars, bvars, labvars, algo, blockLevel, dragvars, uploads,
                   nextId, started>>

\* the callback of canvas.toBlob (lines 86-101)
BlobReady(t) ==
    /\ runs[t].at = "encoding"
    /\ \E blob \in BOOLEAN :
        Resume(t, IF blob
                  THEN Done(ItemOf(runs[t]), runs[t].options, runs[t].mode)
                  ELSE Failed(ItemOf(runs[t])))
    /\ UNCHANGED <<inputs, gilbertvars, bvars, labvars, algo, blockLevel, dragvars, uploads,
                   nextId, started>>

InitPage == NoImage /\ IdleEngine /\ NoLab /\ NoPage

NextPage ==
    \/ HandleFiles
    \/ SetAlgo
    \/ HandleRunAll
    \/ HandleRunSingle
    \/ HandleSwitchAlgo
    \/ HandleResetAll
    \/ HandleRemove
    \/ FilesDecoded
    \/ DecodeFails
    \/ \E t \in 1 .. MaxWork : TimerFires(t)
    \/ \E t \in 1 .. MaxWork : ImageLoads(t)
    \/ \E t \in 1 .. MaxWork : ImageFails(t)
    \/ \E t \in 1 .. MaxWork : BlobReady(t)

SpecPage == InitPage /\ [][NextPage]_vars

\* SpecDrag: the drag events over the upload label, with what a drop starts
NextDrag ==
    \/ HandleDragEnter
    \/ HandleDragOver
    \/ HandleDragLeave
    \/ HandleDrop
    \/ FilesDecoded
    \/ DecodeFails
    \/ HandleRemove

SpecDrag == InitPage /\ [][NextDrag]_vars

\* FairSpecPage: the event loop runs every callback that is due: a timer set
\* fires, an image with a source set loads or fails, toBlob calls back,
\* createImageBitmap settles.  Nothing obliges the user to act.
FairSpecPage ==
    /\ SpecPage
    /\ WF_vars(FilesDecoded \/ DecodeFails)
    /\ \A t \in 1 .. MaxWork :
        /\ WF_vars(TimerFires(t))
        /\ WF_vars(ImageLoads(t) \/ ImageFails(t))
        /\ WF_vars(BlobReady(t))

\* ---- C21 ----

\* the list holds the image id in status 'processing'
InProcessing(id) ==
    \E j \in DOMAIN images : images[j].id = id /\ images[j].status = "processing"

\* C21: every image set to 'processing' eventually leaves that status, every
\* call of processImage eventually resolves (the run that awaits it goes on),
\* also when the engine throws inside onload, and a batch eventually sets
\* isProcessing back to false
C21_ProcessingAlwaysEnds ==
    /\ \A id \in 1 .. MaxWork : InProcessing(id) ~> ~InProcessing(id)
    /\ \A t \in 1 .. MaxWork : (runs[t].at = "loading") ~> (runs[t].at # "loading")
    /\ isProcessing ~> ~isProcessing

\* ---- C22 ----

\* run t is a single-image run (handleRunSingle, handleSwitchAlgo) whose
\* processImage resolves in this step
SingleCompletes(t) ==
    /\ Pending(t)
    /\ runs[t].kind # "all"
    /\ runs'[t] = NoRun

\* no id occurs twice in the list
NoIdTwice ==
    \A j, k \in DOMAIN images : images[j].id = images[k].id => j = k

\* C22: when a single-image run completes, every entry of the list other than
\* that of the image processed is left as it was, whatever handleRemove and
\* handleFiles did while the run was pending: no image disappears, and no id
\* occurs twice in the list
C22_SingleRunChangesOwnEntryOnly ==
    /\ []NoIdTwice
    /\ [][\A t \in DOMAIN runs :
            SingleCompletes(t)
                => /\ Len(images') = Len(images)
                   /\ \A j \in DOMAIN images :
                        images[j].id # ItemOf(runs[t]).id => images'[j] = images[j]]_vars

\* ---- C23 ----

\* the four result fields of an item
ResultSet(item) ==
    /\ item.resultPreview # NoUrl
    /\ item.resultBlob # NoBlob
    /\ item.usedAlgo # NoAlgo
    /\ item.lastMode # NoMode
ResultUnset(item) ==
    /\ item.resultPreview = NoUrl
    /\ item.resultBlob = NoBlob
    /\ item.usedAlgo = NoAlgo
    /\ item.lastMode = NoMode

\* C23: in every reachable state of the image list an item in status 'done'
\* has resultPreview, resultBlob, usedAlgo and lastMode all set, and an item in
\* status 'idle' has all four unset, whatever sequence of handleFiles,
\* handleRunAll, handleRunSingle, handleSwitchAlgo, handleResetAll and
\* handleRemove led there, a reset during a pending run included
C23_DoneHasResultIdleHasNone ==
    \A j \in DOMAIN images :
        /\ images[j].status = "done" => ResultSet(images[j])
        /\ images[j].status = "idle" => ResultUnset(images[j])

\* a reset was issued while a run was pending: the run has not resolved, and
\* the entry of the image it processes is 'idle' again; the image had a result
\* when the run started
C23_Witness ==
    \E t \in DOMAIN runs, j \in DOMAIN images :
        /\ Pending(t)
        /\ runs[t].kind = "switch"
        /\ images[j].id = ItemOf(runs[t]).id
        /\ images[j].status = "idle"
        /\ ResultUnset(images[j])

\* ---- C24 ----

\* r is a batch run that awaits a processImage
IsBatch(r) == r.at # "returned" /\ r.kind = "all"

\* the batch runs under way
PendingBatches == {t \in DOMAIN runs : IsBatch(runs[t])}

\* the ids of a list of items, in its order
Ids(list) == [j \in DOMAIN list |-> list[j].id]

\* what a step may do to a run r, r2 being the same run after the step: start
\* a batch only while isProcessing is false, on the images of the list in list
\* order, the first set to 'processing'; move a batch to the next image of its
\* snapshot only when the processImage of the previous one resolves, the next
\* image (if still listed) then set to 'processing'
BatchStep(r, r2) ==
    IF ~IsBatch(r2) \/ r2 = r
    THEN TRUE
    ELSE IF ~IsBatch(r)
    THEN /\ ~isProcessing
         /\ Ids(r2.queue) = Ids(images)
         /\ images'[1].status = "processing"
    ELSE \/ r2.queue = r.queue
         \/ /\ r2.queue = Tail(r.queue)
            /\ r.at \in {"timer", "loading", "encoding"}
            /\ r2.at = "timer"
            /\ \A j \in DOMAIN images' :
                    images'[j].id = Head(r2.queue).id => images'[j].status = "processing"

\* C24: at most one batch run is under way at any time, and isProcessing is
\* true exactly then; handleRunAll starts a run only while isProcessing is
\* false, on the images of the list in list order; a run goes on to the next
\* image of its snapshot only in the step in which the processImage of the
\* previous one resolves, and that image, if still listed, is then set to
\* 'processing'
C24_OneBatchInListOrder ==
    /\ [](Cardinality(PendingBatches) <= 1 /\ (isProcessing <=> PendingBatches # {}))
    /\ [][\A t \in DOMAIN runs : BatchStep(runs[t], runs'[t])]_vars

\* a batch over the images 1 and 2 processes the second: the first is done
C24_Witness ==
    \E t \in PendingBatches :
        /\ Len(images) = 2
        /\ images[1].id = 1 /\ images[1].status = "done"
        /\ images[2].id = 2 /\ images[2].status = "processing"
        /\ ItemOf(runs[t]).id = 2

\* ---- C28 ----

\* C28: after any sequence of handleDragEnter, handleDragOver, handleDragLeave
\* and handleDrop the drag counter is not negative and isDragging is true
\* exactly when the counter is greater than 0; a step of handleDrop ends with
\* the counter at 0 and isDragging false
C28_DragStateFollowsCounter ==
    /\ [](dragCounter >= 0 /\ (isDragging <=> dragCounter > 0))
    /\ [][HandleDrop => dragCounter' = 0 /\ isDragging' = FALSE]_vars

\* files were dropped (in SpecDrag only handleDrop calls handleFiles) and the
\* drag is over
C28_Witness ==
    /\ uploads # <<>>
    /\ dragCounter = 0
    /\ isDragging = FALSE

====
